---- MODULE Spec2Model ----
(***************************************************************************)
(* A model of the direct-collocation transcription of CasOC (the CasADi    *)
(* optimal-control layer of OpenSim Moco): the variable registry, bounds   *)
(* and scaling, the scheme-specific orderings and masks, and the flatten / *)
(* expand mappings between per-kind matrices and packed vectors.           *)
(*                                                                         *)
(* Matrices are records [rows, cols, d] with d a function on               *)
(* (0..rows-1) \X (0..cols-1); indices are 0-based as in the source.       *)
(* Packed vectors are sequences (1-based), in casadi's column-major order. *)
(* An index outside a matrix or vector makes the matrix library throw; the *)
(* model records that as an error outcome of the operation.                *)
(***************************************************************************)
EXTENDS Integers, Sequences, FiniteSets, TLC

VARIABLES
    cfg,            \* solver + problem configuration fixed at construction
    pc,             \* position of the driver in the current specification
    m_unscaledVars, \* variable buffers handed to flatten (kind -> matrix)
    order,          \* result of getVariableOrder()
    flatVars,       \* result of flattenVariablesDM
    expandedVars,   \* result of expandVariables
    m_constraints,  \* Constraints value handed to flattenConstraints
    flatCons,       \* result of flattenConstraints(m_constraints)
    rtCons,         \* result of expandConstraints on flatCons' vector
    expCons,        \* result of expandConstraints on a packed vector g
    rtFlat,         \* result of flattenConstraints on expCons' value
    m_lowerBounds,  \* lower bound of every variable entry (kind -> matrix)
    m_upperBounds,  \* upper bound of every variable entry (kind -> matrix)
    m_scale,        \* dilate column of every kind (kind -> rows x 1 matrix)
    m_shift,        \* shift column of every kind (kind -> rows x 1 matrix)
    calls,          \* number of setVariableBounds / setVariableScaling /
                    \* solve calls
    lastCall,       \* the last such call and its arguments
    addressed,      \* <<kind, row>> entries written by setVariableScaling
    scaled,         \* inputs and results of scaleVariables / unscaleVariables
    meshIndices,    \* result of createMeshIndices
    controlIndices, \* result of createControlIndicesImpl
    quadCoeffs,     \* result of createQuadratureCoefficients
    trace,          \* the calls made on a transcription instance, in order
    evalIn,         \* evalOnTrajectory: the slice each evaluation has read
    evalOut         \* evalOnTrajectory: the output columns written so far

layoutVars == <<m_unscaledVars, order, flatVars, expandedVars>>
consVars == <<m_constraints, flatCons, rtCons, expCons, rtFlat>>
boundsVars == <<m_lowerBounds, m_upperBounds, m_scale, m_shift, calls,
                lastCall, addressed, scaled>>

meshVars == <<meshIndices, controlIndices, quadCoeffs>>

runVars == <<trace, evalIn, evalOut>>

vars == <<cfg, pc, layoutVars, consVars, boundsVars, meshVars, runVars>>

\* Value of a variable that the current specification does not use.
Idle == <<>>

-----------------------------------------------------------------------------
(* Bounds of the model. *)

MaxMesh == 2
MaxDegree == 2
MaxDim == 2
MaxCalls == 2

-----------------------------------------------------------------------------
(* Generic helpers. *)

RECURSIVE ConcatAll(_)
ConcatAll(ss) ==
    IF ss = <<>> THEN <<>> ELSE Head(ss) \o ConcatAll(Tail(ss))

RECURSIVE SumSeq(_)
SumSeq(s) ==
    IF s = <<>> THEN 0 ELSE Head(s) + SumSeq(Tail(s))

Cells(rows, cols) == (0 .. rows - 1) \X (0 .. cols - 1)

Zeros(rows, cols) ==
    [rows |-> rows, cols |-> cols, d |-> [rc \in Cells(rows, cols) |-> 0]]

Numel(m) == m.rows * m.cols

\* matrix(Slice(), j): column j as a vector.
Column(m, j) == [i \in 1 .. m.rows |-> m.d[<<i - 1, j>>]]

ColumnInRange(m, j) == j >= 0 /\ j < m.cols

-----------------------------------------------------------------------------
(* Variable kinds. *)

Kinds ==
    {"initial_time", "final_time", "states", "controls", "multipliers",
     "derivatives", "parameters", "projection_states", "slacks"}

KindIndex(k) ==
    CASE k = "initial_time" -> 1
      [] k = "final_time" -> 2
      [] k = "states" -> 3
      [] k = "controls" -> 4
      [] k = "multipliers" -> 5
      [] k = "derivatives" -> 6
      [] k = "parameters" -> 7
      [] k = "projection_states" -> 8
      [] k = "slacks" -> 9

getSortedVarKeys ==
    <<"initial_time", "final_time", "parameters", "states", "controls",
      "multipliers", "derivatives">>

-----------------------------------------------------------------------------
(* Scheme layout. *)

Schemes == {"LegendreGauss", "LegendreGaussRadau"}

\* Points per mesh interval handed to createVariablesAndSetBounds by the
\* scheme's constructor: 2 for Trapezoidal, degree + 2 for Legendre-Gauss,
\* degree + 1 for Legendre-Gauss-Radau.
PointsPerMeshInterval(scheme, degree) ==
    CASE scheme = "Trapezoidal" -> 2
      [] scheme = "LegendreGauss" -> degree + 2
      [] scheme = "LegendreGaussRadau" -> degree + 1
      [] scheme = "Derived" -> cfg.pointsPerMeshInterval

m_degree == cfg.degree
m_numMeshIntervals == cfg.numMeshIntervals
m_numMeshPoints == cfg.numMeshIntervals + 1
m_numPointsPerMeshInterval == PointsPerMeshInterval(cfg.scheme, cfg.degree)
m_numGridPoints ==
    cfg.numMeshIntervals * (m_numPointsPerMeshInterval - 1) + 1

-----------------------------------------------------------------------------
(* Variable buffers: one matrix per kind, allocated once at construction.  *)

VarRows(k) ==
    CASE k \in {"initial_time", "final_time"} -> 1
      [] k = "states" -> cfg.numStates
      [] k = "controls" -> cfg.numControls
      [] k = "multipliers" -> cfg.numMultipliers
      [] k = "derivatives" -> cfg.numDerivatives
      [] k = "parameters" -> cfg.numParameters
      [] k = "projection_states" -> cfg.numProjectionStates
      [] k = "slacks" -> cfg.numSlacks

\* Column count of each kind's buffer.  cfg.layout selects how many copies
\* of the time variables exist: one ("single"), one per mesh point ("mesh",
\* the columns getVariableOrder addresses) or one per grid point ("grid",
\* the columns flattenVariablesDM addresses).
VarColumns(k) ==
    CASE k \in {"initial_time", "final_time"} ->
            (CASE cfg.layout = "single" -> 1
               [] cfg.layout = "mesh" -> m_numMeshPoints
               [] cfg.layout = "grid" -> m_numGridPoints)
      [] k = "parameters" ->
            (IF cfg.layout = "single" THEN 1 ELSE m_numMeshPoints)
      [] k \in {"states", "controls", "multipliers", "derivatives"} ->
            m_numGridPoints
      [] k \in {"projection_states", "slacks"} -> m_numMeshIntervals

\* A value assignment to the buffers.  With fill = "distinct" every entry
\* carries a value of its own, so a reindexing that moves any entry is seen.
EntryValue(fill, k, r, c) ==
    IF fill = "distinct" THEN KindIndex(k) * 10000 + c * 100 + r + 1 ELSE 0

createVariables(fill) ==
    [k \in Kinds |->
        [rows |-> VarRows(k), cols |-> VarColumns(k),
         d |-> [rc \in Cells(VarRows(k), VarColumns(k)) |->
                    EntryValue(fill, k, rc[1], rc[2])]]]

-----------------------------------------------------------------------------
(* getVariableOrder(): the scheme's (kind, column) ordering. *)

\* [i \in 0..n-1] -> <<kind, first + i>>
Run(kind, first, n) == [i \in 1 .. n |-> <<kind, first + i - 1>>]

\* The Legendre-Gauss order with the projection states and slacks of
\* interval k in the block of interval k itself.
LegendreGauss_getVariableOrderOwnBlock ==
    LET N == m_numPointsPerMeshInterval - 1
        interp == cfg.interpolateControlMeshInteriorPoints
        Block(imesh) ==
            LET igrid == imesh * N
            IN  <<<<"initial_time", imesh>>, <<"final_time", imesh>>,
                  <<"parameters", imesh>>,
                  <<"projection_states", imesh>>, <<"slacks", imesh>>>>
                \o Run("states", igrid, N)
                \o (IF interp
                        THEN Run("controls", igrid + 1, m_degree)
                        ELSE Run("controls", igrid, N))
                \o Run("multipliers", igrid, N)
                \o Run("derivatives", igrid, N)
    IN  ConcatAll([im \in 1 .. m_numMeshIntervals |-> Block(im - 1)])
        \o <<<<"initial_time", m_numMeshIntervals>>,
             <<"final_time", m_numMeshIntervals>>,
             <<"parameters", m_numMeshIntervals>>,
             <<"states", m_numGridPoints - 1>>>>
        \o (IF ~interp THEN <<<<"controls", m_numGridPoints - 1>>>> ELSE <<>>)
        \o <<<<"multipliers", m_numGridPoints - 1>>,
             <<"derivatives", m_numGridPoints - 1>>>>

LegendreGauss_getVariableOrder ==
    LET N == m_numPointsPerMeshInterval - 1
        interp == cfg.interpolateControlMeshInteriorPoints
        Block(imesh) ==
            LET igrid == imesh * N
            IN  <<<<"initial_time", imesh>>, <<"final_time", imesh>>,
                  <<"parameters", imesh>>>>
                \o (IF imesh > 0
                        THEN <<<<"projection_states", imesh - 1>>,
                               <<"slacks", imesh - 1>>>>
                        ELSE <<>>)
                \o Run("states", igrid, N)
                \o (IF interp
                        THEN Run("controls", igrid + 1, m_degree)
                        ELSE Run("controls", igrid, N))
                \o Run("multipliers", igrid, N)
                \o Run("derivatives", igrid, N)
    IN  ConcatAll([im \in 1 .. m_numMeshIntervals |-> Block(im - 1)])
        \o <<<<"initial_time", m_numMeshIntervals>>,
             <<"final_time", m_numMeshIntervals>>,
             <<"parameters", m_numMeshIntervals>>,
             <<"projection_states", m_numMeshIntervals - 1>>,
             <<"slacks", m_numMeshIntervals - 1>>,
             <<"states", m_numGridPoints - 1>>>>
        \o (IF ~interp THEN <<<<"controls", m_numGridPoints - 1>>>> ELSE <<>>)
        \o <<<<"multipliers", m_numGridPoints - 1>>,
             <<"derivatives", m_numGridPoints - 1>>>>

\* The Legendre-Gauss-Radau order with the loop over the interval's
\* remaining states starting at the interval's first grid point.
LegendreGaussRadau_getVariableOrderStatesFromStart ==
    LET N == m_numPointsPerMeshInterval - 1
        interp == cfg.interpolateControlMeshInteriorPoints
        Block(imesh) ==
            LET igrid == imesh * N
            IN  <<<<"states", igrid>>, <<"initial_time", imesh>>,
                  <<"final_time", imesh>>, <<"parameters", imesh>>>>
                \o Run("states", igrid, N)
                \o (IF interp
                        THEN Run("controls", m_degree * imesh, m_degree)
                        ELSE Run("controls", igrid, N))
                \o Run("multipliers", igrid, N)
                \o Run("derivatives", igrid, N)
                \o <<<<"slacks", imesh>>>>
    IN  ConcatAll([im \in 1 .. m_numMeshIntervals |-> Block(im - 1)])
        \o <<<<"states", m_numGridPoints - 1>>,
             <<"initial_time", m_numMeshIntervals>>,
             <<"final_time", m_numMeshIntervals>>,
             <<"parameters", m_numMeshIntervals>>>>
        \o (IF ~interp THEN <<<<"controls", m_numGridPoints - 1>>>> ELSE <<>>)
        \o <<<<"multipliers", m_numGridPoints - 1>>,
             <<"derivatives", m_numGridPoints - 1>>>>

LegendreGaussRadau_getVariableOrder ==
    LET N == m_numPointsPerMeshInterval - 1
        interp == cfg.interpolateControlMeshInteriorPoints
        Block(imesh) ==
            LET igrid == imesh * N
            IN  <<<<"states", igrid>>, <<"initial_time", imesh>>,
                  <<"final_time", imesh>>, <<"parameters", imesh>>>>
                \o Run("states", igrid + 1, N - 1)
                \o (IF interp
                        THEN Run("controls", m_degree * imesh, m_degree)
                        ELSE Run("controls", igrid, N))
                \o Run("multipliers", igrid, N)
                \o Run("derivatives", igrid, N)
                \o <<<<"slacks", imesh>>>>
    IN  ConcatAll([im \in 1 .. m_numMeshIntervals |-> Block(im - 1)])
        \o <<<<"states", m_numGridPoints - 1>>,
             <<"initial_time", m_numMeshIntervals>>,
             <<"final_time", m_numMeshIntervals>>,
             <<"parameters", m_numMeshIntervals>>>>
        \o (IF ~interp THEN <<<<"controls", m_numGridPoints - 1>>>> ELSE <<>>)
        \o <<<<"multipliers", m_numGridPoints - 1>>,
             <<"derivatives", m_numGridPoints - 1>>>>

getVariableOrder ==
    IF cfg.scheme = "LegendreGauss"
        THEN LegendreGauss_getVariableOrder
        ELSE LegendreGaussRadau_getVariableOrder

-----------------------------------------------------------------------------
(* flattenVariablesDM / expandVariables. *)

\* The (kind, column) pairs flattenVariablesDM pushes onto stdvec, in order.
flattenVariablesColumns ==
    LET N == m_numPointsPerMeshInterval - 1
        Block(imesh) ==
            LET igrid == imesh * N
            IN  Run("initial_time", igrid, N)
                \o Run("final_time", igrid, N)
                \o Run("states", igrid, N)
                \o Run("controls", igrid, N)
    IN  ConcatAll([im \in 1 .. m_numMeshIntervals |-> Block(im - 1)])
        \o <<<<"initial_time", m_numGridPoints - 1>>,
             <<"final_time", m_numGridPoints - 1>>,
             <<"states", m_numGridPoints - 1>>,
             <<"controls", m_numGridPoints - 1>>>>

\* veccat of the pushed columns; addressing a column a buffer does not have
\* throws.
flattenVariablesDM(v) ==
    LET cols == flattenVariablesColumns
        bad == \E i \in 1 .. Len(cols) :
                  ~ColumnInRange(v[cols[i][1]], cols[i][2])
    IN  IF bad
            THEN [err |-> TRUE, columns |-> cols, x |-> <<>>]
            ELSE [err |-> FALSE, columns |-> cols,
                  x |-> ConcatAll([i \in 1 .. Len(cols) |->
                            Column(v[cols[i][1]], cols[i][2])])]

\* Offset of the idx-th sorted key's segment in the packed vector.
RECURSIVE SegmentOffset(_, _)
SegmentOffset(shapes, idx) ==
    IF idx = 1 THEN 0
    ELSE SegmentOffset(shapes, idx - 1)
            + Numel(shapes[getSortedVarKeys[idx - 1]])

\* DM::reshape(x(Slice(offset, offset + numel)), rows, cols), column-major.
Reshape(x, offset, rows, cols) ==
    [rows |-> rows, cols |-> cols,
     d |-> [rc \in Cells(rows, cols) |-> x[offset + rc[2] * rows + rc[1] + 1]]]

\* shapes: m_scaledVars, the buffers whose shapes drive the slicing.
expandVariables(x, shapes) ==
    LET keys == getSortedVarKeys
        total == SegmentOffset(shapes, Len(keys))
                    + Numel(shapes[keys[Len(keys)]])
        KeyIdx(k) == CHOOSE i \in 1 .. Len(keys) : keys[i] = k
    IN  IF total > Len(x)
            THEN [err |-> TRUE, offset |-> total, out |-> <<>>]
            ELSE [err |-> FALSE, offset |-> total,
                  out |-> [k \in {keys[i] : i \in 1 .. Len(keys)} |->
                             Reshape(x, SegmentOffset(shapes, KeyIdx(k)),
                                     shapes[k].rows, shapes[k].cols)]]

-----------------------------------------------------------------------------
(* Specification of the variable layout: construct, ask the scheme for its *)
(* order, flatten the buffers, expand the packed vector.                   *)

VarConfigs ==
    [scheme : Schemes,
     degree : 1 .. MaxDegree,
     numMeshIntervals : 1 .. MaxMesh,
     interpolateControlMeshInteriorPoints : BOOLEAN,
     layout : {"single", "mesh", "grid"},
     numStates : 1 .. MaxDim,
     numControls : 0 .. 1,
     numMultipliers : 0 .. 1,
     numDerivatives : {0},
     numParameters : 0 .. 1,
     numProjectionStates : {0},
     numSlacks : {0},
     fill : {"distinct", "constant"}]

InitVars ==
    /\ cfg \in VarConfigs
    /\ pc = "constructed"
    /\ m_unscaledVars = createVariables(cfg.fill)
    /\ order = Idle
    /\ flatVars = Idle
    /\ expandedVars = Idle
    /\ m_constraints = Idle
    /\ flatCons = Idle
    /\ rtCons = Idle
    /\ expCons = Idle
    /\ rtFlat = Idle
    /\ m_lowerBounds = Idle
    /\ m_upperBounds = Idle
    /\ m_scale = Idle
    /\ m_shift = Idle
    /\ calls = 0
    /\ lastCall = Idle
    /\ addressed = {}
    /\ scaled = Idle
    /\ meshIndices = Idle
    /\ controlIndices = Idle
    /\ quadCoeffs = Idle
    /\ trace = Idle
    /\ evalIn = Idle
    /\ evalOut = Idle

GetVariableOrder ==
    /\ pc = "constructed"
    /\ order' = getVariableOrder
    /\ pc' = "ordered"
    /\ UNCHANGED <<runVars, cfg, m_unscaledVars, flatVars, expandedVars, consVars, boundsVars, meshVars>>

FlattenVariables ==
    /\ pc = "ordered"
    /\ flatVars' = flattenVariablesDM(m_unscaledVars)
    /\ pc' = "flattened"
    /\ UNCHANGED <<runVars, cfg, m_unscaledVars, order, expandedVars, consVars, boundsVars, meshVars>>

ExpandVariables ==
    /\ pc = "flattened"
    /\ ~flatVars.err
    /\ expandedVars' = expandVariables(flatVars.x, m_unscaledVars)
    /\ pc' = "expanded"
    /\ UNCHANGED <<runVars, cfg, m_unscaledVars, order, flatVars, consVars, boundsVars, meshVars>>

NextVars == GetVariableOrder \/ FlattenVariables \/ ExpandVariables

SpecVars == InitVars /\ [][NextVars]_vars

-----------------------------------------------------------------------------
(* Properties of the variable layout. *)

\* C1: expandVariables(flattenVariablesDM(v)) gives back v for every kind,
\* entry for entry (stated for the runs in which neither call throws).
RoundTripVariables ==
    (pc = "expanded" /\ ~expandedVars.err) =>
        \A k \in Kinds :
            Numel(m_unscaledVars[k]) > 0 =>
                /\ k \in DOMAIN expandedVars.out
                /\ expandedVars.out[k] = m_unscaledVars[k]

\* C4: the columns flattenVariablesDM emits are exactly the pairs of the
\* scheme's getVariableOrder(), in that sequence.
FlattenFollowsVariableOrder ==
    (pc \in {"flattened", "expanded"} /\ ~flatVars.err) =>
        flatVars.columns = order

-----------------------------------------------------------------------------
(* Constraints<T>: a record of matrices, one per slot; endpoint and path   *)
(* are sequences of matrices.  An entry <<slot, idx, col>> names column    *)
(* col of a slot (idx selects the block within endpoint / path, else 0).   *)

NotRun == [status |-> "not_run"]

m_numParameterConstraints == cfg.numParameterConstraints
m_numMultibodyResiduals == cfg.numMultibodyResiduals
m_numAuxiliaryResiduals == cfg.numAuxiliaryResiduals

\* Rows of one defects column, as handed to createVariablesAndSetBounds:
\* numStates for Trapezoidal; the rows calcDefectsImpl writes for the
\* Legendre schemes.
m_numDefectsPerMeshInterval ==
    CASE cfg.scheme = "Trapezoidal" -> cfg.numStates
      [] cfg.scheme = "LegendreGauss" -> (m_degree + 1) * cfg.numStates
      [] cfg.scheme = "LegendreGaussRadau" ->
            2 + cfg.numParameters + m_degree * cfg.numStates

\* Columns of each path-constraint block: every grid point when the path
\* constraints are enforced at mesh-interior points, else every mesh point.
m_numPathConstraintPoints ==
    IF cfg.enforcePathConstraintMidpoints
        THEN m_numGridPoints ELSE m_numMeshPoints

\* m_pointsForInterpControls.numel(): one point per mesh-interior grid
\* point when the scheme supplies interpolation points, else none.
NumPointsForInterpControls ==
    IF cfg.interpolateControls
        THEN m_numMeshIntervals * (m_numPointsPerMeshInterval - 2) ELSE 0

\* The total number of scalar constraints of the configuration: every
\* column the traversal addresses, times the rows of its slot.
ConstraintCount ==
    LET N == m_numPointsPerMeshInterval - 1
    IN  SumSeq(cfg.endpointOutputs)
        + m_numMeshIntervals * N * (2 + m_numParameterConstraints)
        + m_numMeshIntervals * m_numDefectsPerMeshInterval
        + m_numGridPoints
            * (m_numMultibodyResiduals + m_numAuxiliaryResiduals)
        + m_numMeshPoints * cfg.numKinematicConstraintEquations
        + m_numPathConstraintPoints * SumSeq(cfg.pathSizes)
        + NumPointsForInterpControls * cfg.numControls

\* The precomputed total the flatten / expand checks compare against;
\* cfg.countDelta # 0 models a total that disagrees with the traversal.
m_numConstraints == ConstraintCount + cfg.countDelta

SlotOf(c, e) ==
    CASE e[1] = "endpoint" -> c.endpoint[e[2] + 1]
      [] e[1] = "path" -> c.path[e[2] + 1]
      [] OTHER -> c[e[1]]

ConsRun(slot, first, n) == [i \in 1 .. n |-> <<slot, 0, first + i - 1>>]

PathAt(nPath, col) == [p \in 1 .. nPath |-> <<"path", p - 1, col>>]

\* flattenConstraintsColumns with the kinematic column copied before the
\* interval's defects and residuals.
flattenConstraintsColumnsKinematicFirst(nEndpoint, nPath) ==
    LET N == m_numPointsPerMeshInterval - 1
        Block(imesh) ==
            LET igrid == imesh * N
            IN  ConsRun("initial_time", imesh * N, N)
                \o ConsRun("final_time", imesh * N, N)
                \o ConsRun("parameters", imesh * N, N)
                \o <<<<"kinematic", 0, imesh>>>>
                \o <<<<"defects", 0, imesh>>>>
                \o ConcatAll([i \in 1 .. N |->
                        <<<<"multibody_residuals", 0, igrid + i - 1>>,
                          <<"auxiliary_residuals", 0, igrid + i - 1>>>>])
                \o (IF cfg.enforcePathConstraintMidpoints
                        THEN ConcatAll([i \in 1 .. N |->
                                PathAt(nPath, igrid + i - 1)])
                        ELSE PathAt(nPath, imesh))
                \o (IF NumPointsForInterpControls # 0
                        THEN ConsRun("interp_controls", imesh * (N - 1), N - 1)
                        ELSE <<>>)
    IN  [e \in 1 .. nEndpoint |-> <<"endpoint", e - 1, 0>>]
        \o ConcatAll([im \in 1 .. m_numMeshIntervals |-> Block(im - 1)])
        \o <<<<"multibody_residuals", 0, m_numGridPoints - 1>>,
             <<"auxiliary_residuals", 0, m_numGridPoints - 1>>,
             <<"kinematic", 0, m_numMeshPoints - 1>>>>
        \o (IF cfg.enforcePathConstraintMidpoints
                THEN PathAt(nPath, m_numGridPoints - 1)
                ELSE PathAt(nPath, m_numMeshPoints - 1))

\* The copyColumn calls of flattenConstraints, in program order.
flattenConstraintsColumns(nEndpoint, nPath) ==
    LET N == m_numPointsPerMeshInterval - 1
        Block(imesh) ==
            LET igrid == imesh * N
            IN  ConsRun("initial_time", imesh * N, N)
                \o ConsRun("final_time", imesh * N, N)
                \o ConsRun("parameters", imesh * N, N)
                \o <<<<"defects", 0, imesh>>>>
                \o ConcatAll([i \in 1 .. N |->
                        <<<<"multibody_residuals", 0, igrid + i - 1>>,
                          <<"auxiliary_residuals", 0, igrid + i - 1>>>>])
                \o <<<<"kinematic", 0, imesh>>>>
                \o (IF cfg.enforcePathConstraintMidpoints
                        THEN ConcatAll([i \in 1 .. N |->
                                PathAt(nPath, igrid + i - 1)])
                        ELSE PathAt(nPath, imesh))
                \o (IF NumPointsForInterpControls # 0
                        THEN ConsRun("interp_controls", imesh * (N - 1), N - 1)
                        ELSE <<>>)
    IN  [e \in 1 .. nEndpoint |-> <<"endpoint", e - 1, 0>>]
        \o ConcatAll([im \in 1 .. m_numMeshIntervals |-> Block(im - 1)])
        \o <<<<"multibody_residuals", 0, m_numGridPoints - 1>>,
             <<"auxiliary_residuals", 0, m_numGridPoints - 1>>,
             <<"kinematic", 0, m_numMeshPoints - 1>>>>
        \o (IF cfg.enforcePathConstraintMidpoints
                THEN PathAt(nPath, m_numGridPoints - 1)
                ELSE PathAt(nPath, m_numMeshPoints - 1))

\* copyColumn of flattenConstraints; acc = [iflat, flat, copied, err].
\* flat has m_numConstraints rows: a write past its end throws, as does a
\* column the matrix does not have.
flattenCopyColumn(acc, matrix, e) ==
    IF matrix.rows = 0 THEN acc
    ELSE IF \/ ~ColumnInRange(matrix, e[3])
            \/ acc.iflat + matrix.rows > m_numConstraints
        THEN [acc EXCEPT !.err = TRUE]
        ELSE [iflat |-> acc.iflat + matrix.rows,
              flat |-> acc.flat \o Column(matrix, e[3]),
              copied |-> Append(acc.copied, e),
              err |-> FALSE]

RECURSIVE flattenWalk(_, _, _, _)
flattenWalk(c, trav, i, acc) ==
    IF i > Len(trav) \/ acc.err THEN acc
    ELSE flattenWalk(c, trav, i + 1,
                     flattenCopyColumn(acc, SlotOf(c, trav[i]), trav[i]))

\* flattenConstraints without the final comparison of iflat against
\* m_numConstraints.
flattenConstraintsUnchecked(c) ==
    LET trav == flattenConstraintsColumns(Len(c.endpoint), Len(c.path))
        w == flattenWalk(c, trav, 1,
                [iflat |-> 0, flat |-> <<>>, copied |-> <<>>, err |-> FALSE])
    IN  IF w.err
            THEN [status |-> "range_error", iflat |-> w.iflat,
                  copied |-> w.copied]
        ELSE [status |-> "ok", iflat |-> w.iflat, copied |-> w.copied,
              flat |-> w.flat]

flattenConstraints(c) ==
    LET trav == flattenConstraintsColumns(Len(c.endpoint), Len(c.path))
        w == flattenWalk(c, trav, 1,
                [iflat |-> 0, flat |-> <<>>, copied |-> <<>>, err |-> FALSE])
    IN  IF w.err
            THEN [status |-> "range_error", iflat |-> w.iflat,
                  copied |-> w.copied]
        ELSE IF w.iflat # m_numConstraints
            THEN [status |-> "count_error", iflat |-> w.iflat,
                  copied |-> w.copied]
        ELSE [status |-> "ok", iflat |-> w.iflat, copied |-> w.copied,
              flat |-> w.flat]

\* expandConstraintsInit with one defects column per mesh point.
expandConstraintsInitDefectsPerMeshPoint ==
    [initial_time |-> Zeros(1, m_numParameterConstraints),
     final_time |-> Zeros(1, m_numParameterConstraints),
     parameters |-> Zeros(m_numParameterConstraints, m_numMeshPoints - 1),
     defects |-> Zeros(m_numDefectsPerMeshInterval, m_numMeshPoints),
     multibody_residuals |-> Zeros(m_numMultibodyResiduals, m_numGridPoints),
     auxiliary_residuals |-> Zeros(m_numAuxiliaryResiduals, m_numGridPoints),
     kinematic |-> Zeros(cfg.numKinematicConstraintEquations, m_numMeshPoints),
     endpoint |-> [i \in 1 .. Len(cfg.endpointOutputs) |->
                      Zeros(cfg.endpointOutputs[i], 1)],
     path |-> [i \in 1 .. Len(cfg.pathSizes) |->
                  Zeros(cfg.pathSizes[i], m_numPathConstraintPoints)],
     interp_controls |-> Zeros(cfg.numControls, NumPointsForInterpControls)]

\* The slot shapes expandConstraints allocates.
expandConstraintsInit ==
    [initial_time |-> Zeros(1, m_numParameterConstraints),
     final_time |-> Zeros(1, m_numParameterConstraints),
     parameters |-> Zeros(m_numParameterConstraints, m_numMeshPoints - 1),
     defects |-> Zeros(m_numDefectsPerMeshInterval, m_numMeshPoints - 1),
     multibody_residuals |-> Zeros(m_numMultibodyResiduals, m_numGridPoints),
     auxiliary_residuals |-> Zeros(m_numAuxiliaryResiduals, m_numGridPoints),
     kinematic |-> Zeros(cfg.numKinematicConstraintEquations, m_numMeshPoints),
     endpoint |-> [i \in 1 .. Len(cfg.endpointOutputs) |->
                      Zeros(cfg.endpointOutputs[i], 1)],
     path |-> [i \in 1 .. Len(cfg.pathSizes) |->
                  Zeros(cfg.pathSizes[i], m_numPathConstraintPoints)],
     interp_controls |-> Zeros(cfg.numControls, NumPointsForInterpControls)]

\* The copyColumn calls of expandConstraints, in program order.
expandConstraintsColumns(nEndpoint, nPath) ==
    LET N == m_numPointsPerMeshInterval - 1
        Block(imesh) ==
            LET igrid == imesh * N
            IN  ConsRun("initial_time", imesh * N, N)
                \o ConsRun("final_time", imesh * N, N)
                \o ConsRun("parameters", imesh * N, N)
                \o <<<<"defects", 0, imesh>>>>
                \o ConcatAll([i \in 1 .. N |->
                        <<<<"multibody_residuals", 0, igrid + i - 1>>,
                          <<"auxiliary_residuals", 0, igrid + i - 1>>>>])
                \o <<<<"kinematic", 0, imesh>>>>
                \o (IF cfg.enforcePathConstraintMidpoints
                        THEN ConcatAll([i \in 1 .. N |->
                                PathAt(nPath, igrid + i - 1)])
                        ELSE PathAt(nPath, imesh))
                \o (IF NumPointsForInterpControls # 0
                        THEN ConsRun("interp_controls", imesh * (N - 1), N - 1)
                        ELSE <<>>)
    IN  [e \in 1 .. nEndpoint |-> <<"endpoint", e - 1, 0>>]
        \o ConcatAll([im \in 1 .. m_numMeshIntervals |-> Block(im - 1)])
        \o <<<<"multibody_residuals", 0, m_numGridPoints - 1>>,
             <<"auxiliary_residuals", 0, m_numGridPoints - 1>>,
             <<"kinematic", 0, m_numMeshPoints - 1>>>>
        \o (IF cfg.enforcePathConstraintMidpoints
                THEN PathAt(nPath, m_numGridPoints - 1)
                ELSE PathAt(nPath, m_numMeshPoints - 1))

\* matrix(Slice(), col) = vals, written back into its slot.
SetColumn(out, e, vals) ==
    LET m == SlotOf(out, e)
        mm == [m EXCEPT !.d = [rc \in DOMAIN m.d |->
                    IF rc[2] = e[3] THEN vals[rc[1] + 1] ELSE m.d[rc]]]
    IN  CASE e[1] = "endpoint" -> [out EXCEPT !.endpoint[e[2] + 1] = mm]
          [] e[1] = "path" -> [out EXCEPT !.path[e[2] + 1] = mm]
          [] OTHER -> [out EXCEPT ![e[1]] = mm]

\* copyColumn of expandConstraints; acc = [iflat, out, copied, err].
expandCopyColumn(acc, flat, e) ==
    LET matrix == SlotOf(acc.out, e)
    IN  IF matrix.rows = 0 THEN acc
        ELSE IF \/ ~ColumnInRange(matrix, e[3])
                \/ acc.iflat + matrix.rows > Len(flat)
            THEN [acc EXCEPT !.err = TRUE]
            ELSE [iflat |-> acc.iflat + matrix.rows,
                  out |-> SetColumn(acc.out, e,
                            SubSeq(flat, acc.iflat + 1,
                                   acc.iflat + matrix.rows)),
                  copied |-> Append(acc.copied, e),
                  err |-> FALSE]

RECURSIVE expandWalk(_, _, _, _)
expandWalk(flat, trav, i, acc) ==
    IF i > Len(trav) \/ acc.err THEN acc
    ELSE expandWalk(flat, trav, i + 1, expandCopyColumn(acc, flat, trav[i]))

expandConstraints(flat) ==
    LET init == expandConstraintsInit
        trav == expandConstraintsColumns(Len(init.endpoint), Len(init.path))
        w == expandWalk(flat, trav, 1,
                [iflat |-> 0, out |-> init, copied |-> <<>>, err |-> FALSE])
    IN  IF w.err
            THEN [status |-> "range_error", iflat |-> w.iflat,
                  copied |-> w.copied]
        ELSE IF w.iflat # m_numConstraints
            THEN [status |-> "count_error", iflat |-> w.iflat,
                  copied |-> w.copied]
        ELSE [status |-> "ok", iflat |-> w.iflat, copied |-> w.copied,
              out |-> w.out]

-----------------------------------------------------------------------------
(* Specification of the constraint mapping: flatten a Constraints value    *)
(* and expand the result; expand a packed vector and flatten the result.   *)

ConsSchemeDegrees ==
    {<<"Trapezoidal", 0>>} \cup (Schemes \X (1 .. MaxDegree))

ConsProblems ==
    {[numControls |-> 0, numParameters |-> 0, numMultibodyResiduals |-> 0,
      numAuxiliaryResiduals |-> 0, numKinematicConstraintEquations |-> 0,
      endpointOutputs |-> <<>>, pathSizes |-> <<>>],
     [numControls |-> 1, numParameters |-> 1, numMultibodyResiduals |-> 1,
      numAuxiliaryResiduals |-> 1, numKinematicConstraintEquations |-> 1,
      endpointOutputs |-> <<1>>, pathSizes |-> <<1>>],
     [numControls |-> 1, numParameters |-> 0, numMultibodyResiduals |-> 2,
      numAuxiliaryResiduals |-> 0, numKinematicConstraintEquations |-> 0,
      endpointOutputs |-> <<2, 1>>, pathSizes |-> <<1, 2>>],
     [numControls |-> 0, numParameters |-> 1, numMultibodyResiduals |-> 0,
      numAuxiliaryResiduals |-> 1, numKinematicConstraintEquations |-> 1,
      endpointOutputs |-> <<>>, pathSizes |-> <<1>>]}

ConsConfigs ==
    {[scheme |-> sd[1], degree |-> sd[2], numMeshIntervals |-> M,
      enforcePathConstraintMidpoints |-> mids, interpolateControls |-> ic,
      numStates |-> NS, numControls |-> pr.numControls,
      numParameters |-> pr.numParameters,
      numMultibodyResiduals |-> pr.numMultibodyResiduals,
      numAuxiliaryResiduals |-> pr.numAuxiliaryResiduals,
      numKinematicConstraintEquations |->
          pr.numKinematicConstraintEquations,
      endpointOutputs |-> pr.endpointOutputs, pathSizes |-> pr.pathSizes,
      numParameterConstraints |-> nPC, countDelta |-> delta,
      consLayout |-> cl] :
        sd \in ConsSchemeDegrees, M \in 1 .. MaxMesh, mids \in BOOLEAN,
        ic \in BOOLEAN, NS \in 1 .. MaxDim, pr \in ConsProblems,
        nPC \in 0 .. MaxMesh, delta \in {-1, 0, 1},
        cl \in {"allocated", "addressed"}}

SlotTag(slot) ==
    CASE slot = "initial_time" -> 1
      [] slot = "final_time" -> 2
      [] slot = "parameters" -> 3
      [] slot = "defects" -> 4
      [] slot = "multibody_residuals" -> 5
      [] slot = "auxiliary_residuals" -> 6
      [] slot = "kinematic" -> 7
      [] slot = "endpoint" -> 8
      [] slot = "path" -> 9
      [] slot = "interp_controls" -> 10

\* m with every entry given a value of its own.
Fill(m, slot, idx) ==
    [m EXCEPT !.d = [rc \in DOMAIN m.d |->
        (SlotTag(slot) * 10 + idx) * 10000 + rc[2] * 100 + rc[1] + 1]]

\* A Constraints value.  consLayout = "allocated": the slot shapes
\* expandConstraints allocates; "addressed": the time and parameter
\* continuity slots have one column per copyColumn call made on them.
createConstraints ==
    LET a == expandConstraintsInit
        nTime == m_numMeshIntervals * (m_numPointsPerMeshInterval - 1)
        shaped ==
            IF cfg.consLayout = "allocated" THEN a
            ELSE [a EXCEPT
                    !.initial_time = Zeros(1, nTime),
                    !.final_time = Zeros(1, nTime),
                    !.parameters = Zeros(m_numParameterConstraints, nTime)]
    IN  [initial_time |-> Fill(shaped.initial_time, "initial_time", 0),
         final_time |-> Fill(shaped.final_time, "final_time", 0),
         parameters |-> Fill(shaped.parameters, "parameters", 0),
         defects |-> Fill(shaped.defects, "defects", 0),
         multibody_residuals |->
            Fill(shaped.multibody_residuals, "multibody_residuals", 0),
         auxiliary_residuals |->
            Fill(shaped.auxiliary_residuals, "auxiliary_residuals", 0),
         kinematic |-> Fill(shaped.kinematic, "kinematic", 0),
         endpoint |-> [i \in 1 .. Len(shaped.endpoint) |->
                          Fill(shaped.endpoint[i], "endpoint", i - 1)],
         path |-> [i \in 1 .. Len(shaped.path) |->
                      Fill(shaped.path[i], "path", i - 1)],
         interp_controls |->
            Fill(shaped.interp_controls, "interp_controls", 0)]

\* A packed constraint vector of length m_numConstraints, entries distinct.
PackedInput == [i \in 1 .. m_numConstraints |-> i]

InitCons ==
    /\ cfg \in ConsConfigs
    /\ pc = "cons"
    /\ m_constraints = createConstraints
    /\ flatCons = NotRun
    /\ rtCons = NotRun
    /\ expCons = NotRun
    /\ rtFlat = NotRun
    /\ m_unscaledVars = Idle
    /\ order = Idle
    /\ flatVars = Idle
    /\ expandedVars = Idle
    /\ m_lowerBounds = Idle
    /\ m_upperBounds = Idle
    /\ m_scale = Idle
    /\ m_shift = Idle
    /\ calls = 0
    /\ lastCall = Idle
    /\ addressed = {}
    /\ scaled = Idle
    /\ meshIndices = Idle
    /\ controlIndices = Idle
    /\ quadCoeffs = Idle
    /\ trace = Idle
    /\ evalIn = Idle
    /\ evalOut = Idle

FlattenConstraints ==
    /\ pc = "cons"
    /\ flatCons = NotRun
    /\ flatCons' = flattenConstraints(m_constraints)
    /\ UNCHANGED <<runVars, cfg, pc, layoutVars, boundsVars, meshVars, m_constraints, rtCons, expCons, rtFlat>>

ExpandFlattened ==
    /\ pc = "cons"
    /\ flatCons.status = "ok"
    /\ rtCons = NotRun
    /\ rtCons' = expandConstraints(flatCons.flat)
    /\ UNCHANGED <<runVars, cfg, pc, layoutVars, boundsVars, meshVars, m_constraints, flatCons, expCons, rtFlat>>

ExpandConstraints ==
    /\ pc = "cons"
    /\ expCons = NotRun
    /\ expCons' = expandConstraints(PackedInput)
    /\ UNCHANGED <<runVars, cfg, pc, layoutVars, boundsVars, meshVars, m_constraints, flatCons, rtCons, rtFlat>>

FlattenExpanded ==
    /\ pc = "cons"
    /\ expCons.status = "ok"
    /\ rtFlat = NotRun
    /\ rtFlat' = flattenConstraints(expCons.out)
    /\ UNCHANGED <<runVars, cfg, pc, layoutVars, boundsVars, meshVars, m_constraints, flatCons, rtCons, expCons>>

NextCons ==
    \/ FlattenConstraints
    \/ ExpandFlattened
    \/ ExpandConstraints
    \/ FlattenExpanded

SpecCons == InitCons /\ [][NextCons]_vars

-----------------------------------------------------------------------------
(* Properties of the constraint mapping. *)

\* C2: for a Constraints value c with the slot shapes expandConstraints
\* allocates (and a precomputed total that agrees with the traversal),
\* expandConstraints(flattenConstraints(c)) = c slot by slot, and
\* flattenConstraints(expandConstraints(g)) = g for every packed g of
\* length m_numConstraints.
RoundTripConstraints ==
    (pc = "cons" /\ cfg.consLayout = "allocated" /\ cfg.countDelta = 0) =>
        /\ flatCons.status \in {"not_run", "ok"}
        /\ rtCons.status \in {"not_run", "ok"}
        /\ rtCons.status = "ok" => rtCons.out = m_constraints
        /\ expCons.status \in {"not_run", "ok"}
        /\ rtFlat.status \in {"not_run", "ok"}
        /\ rtFlat.status = "ok" => rtFlat.flat = PackedInput

\* What the final index check guarantees for one call's result r.
CountChecked(r) ==
    /\ r.status = "ok" => r.iflat = m_numConstraints
    /\ r.status \in {"ok", "count_error"} => r.iflat = ConstraintCount
    /\ r.status = "count_error" => r.iflat # m_numConstraints
    /\ cfg.countDelta # 0 => r.status # "ok"

\* C3: a flattenConstraints / expandConstraints call that returns normally
\* ended with the running index equal to m_numConstraints; a traversal that
\* runs to its end advances the index by the same amount in both
\* directions; with a total that disagrees with the traversal no call
\* returns a result: it raises an error instead.
ConstraintCountChecked ==
    pc = "cons" =>
        /\ CountChecked(flatCons)
        /\ CountChecked(rtCons)
        /\ CountChecked(expCons)
        /\ CountChecked(rtFlat)
        /\ (/\ flatCons.status \in {"ok", "count_error"}
            /\ expCons.status \in {"ok", "count_error"})
                => flatCons.iflat = expCons.iflat

\* Both directions ran to the end of the traversal with a total that is
\* one too large, and both raised the count error.
ConstraintCountWitness ==
    /\ pc = "cons"
    /\ cfg.countDelta = 1
    /\ flatCons.status = "count_error"
    /\ expCons.status = "count_error"
    /\ flatCons.iflat = expCons.iflat

\* Position of a flat entry in the layout C5 describes, read off the value
\* Fill gave it: <<block, rank, column, sub, row>>.  Block 0 holds the
\* endpoint constraints, block k + 1 mesh interval k, and block
\* m_numMeshIntervals + 1 the last grid point.
LayoutKey(v) ==
    LET N == m_numPointsPerMeshInterval - 1
        tag == v \div 10000
        slot == tag \div 10
        idx == tag % 10
        col == (v % 10000) \div 100
        row == (v % 100) - 1
        atGrid == IF col = m_numGridPoints - 1
                    THEN m_numMeshIntervals + 1 ELSE 1 + (col \div N)
    IN  CASE slot = 8 -> <<0, 0, idx, 0, row>>
          [] slot = 1 -> <<1 + (col \div N), 1, col, 0, row>>
          [] slot = 2 -> <<1 + (col \div N), 2, col, 0, row>>
          [] slot = 3 -> <<1 + (col \div N), 3, col, 0, row>>
          [] slot = 4 -> <<1 + col, 4, col, 0, row>>
          [] slot = 5 -> <<atGrid, 5, col, 0, row>>
          [] slot = 6 -> <<atGrid, 5, col, 1, row>>
          [] slot = 7 -> <<1 + col, 6, col, 0, row>>
          [] slot = 9 ->
                (IF cfg.enforcePathConstraintMidpoints
                    THEN <<atGrid, 7, col, idx, row>>
                    ELSE <<1 + col, 7, col, idx, row>>)
          [] slot = 10 -> <<1 + (col \div (N - 1)), 8, col, 0, row>>

RECURSIVE LexLess(_, _)
LexLess(a, b) ==
    /\ a # <<>>
    /\ \/ Head(a) < Head(b)
       \/ Head(a) = Head(b) /\ LexLess(Tail(a), Tail(b))

\* C5: in the vector flattenConstraints returns, the endpoint entries come
\* first, then one contiguous block per mesh interval in increasing order
\* (time and parameter continuity, defects, multibody then auxiliary
\* residuals per grid point, kinematic, path, interpolating controls), then
\* the last grid point's residuals, kinematic and path entries.
FlatConstraintOrder ==
    (pc = "cons" /\ flatCons.status = "ok") =>
        \A p \in 1 .. Len(flatCons.flat) - 1 :
            LexLess(LayoutKey(flatCons.flat[p]),
                    LayoutKey(flatCons.flat[p + 1]))

\* A flattened configuration in which every slot is present, with two mesh
\* intervals of three grid points each and path constraints at every grid
\* point.
FlatConstraintOrderWitness ==
    /\ pc = "cons"
    /\ flatCons.status = "ok"
    /\ cfg.numMeshIntervals >= 2
    /\ m_numPointsPerMeshInterval >= 3
    /\ cfg.enforcePathConstraintMidpoints
    /\ cfg.interpolateControls
    /\ cfg.numControls > 0
    /\ cfg.numMultibodyResiduals > 0
    /\ cfg.numAuxiliaryResiduals > 0
    /\ cfg.numKinematicConstraintEquations > 0
    /\ cfg.numParameterConstraints > 0
    /\ cfg.pathSizes # <<>>
    /\ cfg.endpointOutputs # <<>>

-----------------------------------------------------------------------------
(* Real numbers.  A double is modelled exactly, as a pair <<n, d>>: the    *)
(* rational n / d in lowest terms with d > 0, or <<1, 0>> for +infinity,   *)
(* <<-1, 0>> for -infinity and <<0, 0>> for NaN.  The arithmetic follows   *)
(* IEEE 754 on the non-finite values and is exact on the finite ones.      *)

NaN == <<0, 0>>
PosInf == <<1, 0>>
NegInf == <<-1, 0>>
Num(n) == <<n, 1>>

isnan(x) == x = NaN
isinf(x) == x[2] = 0 /\ x[1] # 0
IsFinite(x) == x[2] # 0

Abs(n) == IF n < 0 THEN -n ELSE n
Sign(n) == IF n < 0 THEN -1 ELSE IF n = 0 THEN 0 ELSE 1

RECURSIVE Gcd(_, _)
Gcd(a, b) == IF b = 0 THEN a ELSE Gcd(b, a % b)

\* n / d in lowest terms, d # 0.
Ratio(n, d) ==
    LET g == Gcd(Abs(n), Abs(d))
    IN  <<Sign(d) * (n \div g), Abs(d) \div g>>

Neg(x) == <<-x[1], x[2]>>

Add(x, y) ==
    IF isnan(x) \/ isnan(y) THEN NaN
    ELSE IF isinf(x) THEN (IF isinf(y) /\ y # x THEN NaN ELSE x)
    ELSE IF isinf(y) THEN y
    ELSE Ratio(x[1] * y[2] + y[1] * x[2], x[2] * y[2])

Sub(x, y) == Add(x, Neg(y))

Mul(x, y) ==
    IF isnan(x) \/ isnan(y) THEN NaN
    ELSE IF isinf(x) \/ isinf(y)
        THEN (IF x[1] = 0 \/ y[1] = 0 THEN NaN
              ELSE <<Sign(x[1]) * Sign(y[1]), 0>>)
    ELSE Ratio(x[1] * y[1], x[2] * y[2])

Div(x, y) ==
    IF isnan(x) \/ isnan(y) THEN NaN
    ELSE IF isinf(y) THEN (IF isinf(x) THEN NaN ELSE Num(0))
    ELSE IF isinf(x) THEN <<x[1] * (IF y[1] < 0 THEN -1 ELSE 1), 0>>
    ELSE IF y[1] = 0 THEN (IF x[1] = 0 THEN NaN ELSE <<Sign(x[1]), 0>>)
    ELSE Ratio(x[1] * y[2], x[2] * y[1])

-----------------------------------------------------------------------------
(* Bounds and scaling. *)

\* Bounds(): both ends NaN, which isSet() reports as unset.
UnsetBounds == [lower |-> NaN, upper |-> NaN]

isSet(bounds) == ~isnan(bounds.lower) /\ ~isnan(bounds.upper)

\* matrix(rowIndices, columnIndices) = value
AssignBlock(m, rowIndices, columnIndices, value) ==
    [m EXCEPT !.d = [rc \in DOMAIN m.d |->
        IF rc[1] \in rowIndices /\ rc[2] \in columnIndices
            THEN value ELSE m.d[rc]]]

\* setVariableBounds without the isSet() test.
setVariableBoundsAsGiven(lowerBounds, upperBounds, var, rowIndices, columnIndices, bounds) ==
    [lower |-> [lowerBounds EXCEPT ![var] =
                AssignBlock(@, rowIndices, columnIndices, bounds.lower)],
     upper |-> [upperBounds EXCEPT ![var] =
                AssignBlock(@, rowIndices, columnIndices, bounds.upper)]]

\* Returns the pair of bounds buffers after the call.
setVariableBounds(lowerBounds, upperBounds, var, rowIndices, columnIndices, bounds) ==
    IF isSet(bounds)
        THEN [lower |-> [lowerBounds EXCEPT ![var] =
                    AssignBlock(@, rowIndices, columnIndices, bounds.lower)],
              upper |-> [upperBounds EXCEPT ![var] =
                    AssignBlock(@, rowIndices, columnIndices, bounds.upper)]]
        ELSE [lower |-> [lowerBounds EXCEPT ![var] =
                    AssignBlock(@, rowIndices, columnIndices, NegInf)],
              upper |-> [upperBounds EXCEPT ![var] =
                    AssignBlock(@, rowIndices, columnIndices, PosInf)]]

\* ScalingFromBounds without the zero-width case.
ScalingFromBoundsNoZeroWidth(bounds) ==
    LET dilate == Sub(bounds.upper, bounds.lower)
    IN  IF isinf(dilate) \/ isnan(dilate)
            THEN [dilate |-> Num(1), shift |-> Num(0)]
        ELSE [dilate |-> dilate,
              shift |-> Mul(Ratio(-1, 2), Add(bounds.upper, bounds.lower))]

\* The (dilate, shift) pair setVariableScaling derives from the bounds.
ScalingFromBounds(bounds) ==
    LET lower == bounds.lower
        upper == bounds.upper
        dilate == Sub(upper, lower)
    IN  IF isinf(dilate) \/ isnan(dilate)
            THEN [dilate |-> Num(1), shift |-> Num(0)]
        ELSE IF dilate = Num(0)
            THEN [dilate |-> Num(1), shift |-> upper]
        ELSE [dilate |-> dilate,
              shift |-> Mul(Ratio(-1, 2), Add(upper, lower))]

\* setVariableScaling without the test of the solver's scaling option.
setVariableScalingAlways(scale, shift, key, rowIndices, columnIndices, bounds) ==
    [scale |-> [scale EXCEPT ![key] =
            AssignBlock(@, rowIndices, columnIndices,
                        Sub(bounds.upper, bounds.lower))],
     shift |-> [shift EXCEPT ![key] =
            AssignBlock(@, rowIndices, columnIndices,
                        Mul(Ratio(-1, 2), Add(bounds.upper, bounds.lower)))]]

\* Returns the pair of scaling buffers after the call.
setVariableScaling(scale, shift, key, rowIndices, columnIndices, bounds) ==
    IF cfg.scaleVariablesUsingBounds
        THEN LET ds == ScalingFromBounds(bounds)
             IN  [scale |-> [scale EXCEPT ![key] =
                        AssignBlock(@, rowIndices, columnIndices, ds.dilate)],
                  shift |-> [shift EXCEPT ![key] =
                        AssignBlock(@, rowIndices, columnIndices, ds.shift)]]
        ELSE [scale |-> [scale EXCEPT ![key] =
                    AssignBlock(@, rowIndices, columnIndices, Num(1))],
              shift |-> [shift EXCEPT ![key] =
                    AssignBlock(@, rowIndices, columnIndices, Num(0))]]

\* DM::repmat(m, 1, n): n copies of m side by side.
Repmat(m, n) ==
    [rows |-> m.rows, cols |-> m.cols * n,
     d |-> [rc \in Cells(m.rows, m.cols * n) |->
                m.d[<<rc[1], rc[2] % m.cols>>]]]

\* out[key] = scaled * scale + shift, elementwise.
unscaleVariables(scaledVars) ==
    [key \in DOMAIN scaledVars |->
        LET sc == scaledVars[key]
            numCols == sc.cols
            shift == Repmat(m_shift[key], numCols)
            scale == Repmat(m_scale[key], numCols)
        IN  [sc EXCEPT !.d = [rc \in DOMAIN sc.d |->
                Add(Mul(sc.d[rc], scale.d[rc]), shift.d[rc])]]]

\* scaleVariables with the shift taken after the division.
scaleVariablesShiftLast(unscaledVars) ==
    [key \in DOMAIN unscaledVars |->
        LET un == unscaledVars[key]
            shift == Repmat(m_shift[key], un.cols)
            scale == Repmat(m_scale[key], un.cols)
        IN  [un EXCEPT !.d = [rc \in DOMAIN un.d |->
                Sub(Div(un.d[rc], scale.d[rc]), shift.d[rc])]]]

\* out[key] = (unscaled - shift) / scale, elementwise.
scaleVariables(unscaledVars) ==
    [key \in DOMAIN unscaledVars |->
        LET un == unscaledVars[key]
            numCols == un.cols
            shift == Repmat(m_shift[key], numCols)
            scale == Repmat(m_scale[key], numCols)
        IN  [un EXCEPT !.d = [rc \in DOMAIN un.d |->
                Div(Sub(un.d[rc], shift.d[rc]), scale.d[rc])]]]

-----------------------------------------------------------------------------
(* Specifications of bounds and of scaling.  The buffers are allocated;    *)
(* under SpecBounds the caller sets bounds block by block, under SpecScale *)
(* it sets the scaling block by block and variables are then scaled and    *)
(* unscaled.                                                               *)

ScaleConfigs ==
    [scheme : {"LegendreGaussRadau"},
     degree : {1},
     numMeshIntervals : {1},
     layout : {"single"},
     numStates : {2},
     numControls : {1},
     numMultipliers : {0},
     numDerivatives : {0},
     numParameters : {1},
     numProjectionStates : {0},
     numSlacks : {0},
     scaleVariablesUsingBounds : BOOLEAN]

\* The bounds a caller passes to setVariableBounds: unset, zero width,
\* finite.
BoundsChoices ==
    {UnsetBounds,
     [lower |-> Num(2), upper |-> Num(2)],
     [lower |-> Num(-1), upper |-> Num(3)]}

\* The bounds a caller passes to setVariableScaling: unset, zero width,
\* finite, half infinite, infinite.
ScalingBoundsChoices ==
    {UnsetBounds,
     [lower |-> Num(2), upper |-> Num(2)],
     [lower |-> Num(-1), upper |-> Num(3)],
     [lower |-> Num(-3), upper |-> Num(-2)],
     [lower |-> Num(0), upper |-> PosInf],
     [lower |-> NegInf, upper |-> PosInf]}

\* An index argument is one index or Slice(), the whole range.
IndexChoices(n) == {{i} : i \in 0 .. n - 1} \cup {0 .. n - 1}

Filled(rows, cols, value) ==
    [rows |-> rows, cols |-> cols, d |-> [rc \in Cells(rows, cols) |-> value]]

\* The unscaled values handed to scaleVariables, and the scaled values
\* handed to unscaleVariables: a different rational in every entry.
SampleValue(k, r, c) == Ratio(KindIndex(k) + 3 * c - 4 * r - 2, r + 2)

SampleVariables ==
    [k \in Kinds |->
        [rows |-> VarRows(k), cols |-> VarColumns(k),
         d |-> [rc \in Cells(VarRows(k), VarColumns(k)) |->
                    SampleValue(k, rc[1], rc[2])]]]

InitScale ==
    /\ cfg \in ScaleConfigs
    /\ pc \in {"bounds", "scaling"}
    /\ m_lowerBounds =
            [k \in Kinds |-> Filled(VarRows(k), VarColumns(k), NegInf)]
    /\ m_upperBounds =
            [k \in Kinds |-> Filled(VarRows(k), VarColumns(k), PosInf)]
    /\ m_scale = [k \in Kinds |-> Filled(VarRows(k), 1, Num(1))]
    /\ m_shift = [k \in Kinds |-> Filled(VarRows(k), 1, Num(0))]
    /\ calls = 0
    /\ lastCall = [op |-> "none"]
    /\ addressed = {}
    /\ scaled = [op |-> "none"]
    /\ meshIndices = Idle
    /\ controlIndices = Idle
    /\ quadCoeffs = Idle
    /\ trace = Idle
    /\ evalIn = Idle
    /\ evalOut = Idle
    /\ m_unscaledVars = Idle
    /\ order = Idle
    /\ flatVars = Idle
    /\ expandedVars = Idle
    /\ m_constraints = Idle
    /\ flatCons = Idle
    /\ rtCons = Idle
    /\ expCons = Idle
    /\ rtFlat = Idle

SetVariableBounds ==
    /\ pc = "bounds"
    /\ calls < MaxCalls
    /\ \E var \in Kinds, bounds \in BoundsChoices :
        \E rowIndices \in IndexChoices(VarRows(var)),
           columnIndices \in IndexChoices(VarColumns(var)) :
            LET after == setVariableBounds(m_lowerBounds, m_upperBounds,
                            var, rowIndices, columnIndices, bounds)
            IN  /\ m_lowerBounds' = after.lower
                /\ m_upperBounds' = after.upper
                /\ lastCall' = [op |-> "setVariableBounds", var |-> var,
                                rowIndices |-> rowIndices,
                                columnIndices |-> columnIndices,
                                bounds |-> bounds]
    /\ calls' = calls + 1
    /\ UNCHANGED <<runVars, cfg, pc, layoutVars, consVars, meshVars, m_scale, m_shift,
                   addressed, scaled>>

SetVariableScaling ==
    /\ pc = "scaling"
    /\ calls < MaxCalls
    /\ \E key \in Kinds, bounds \in ScalingBoundsChoices :
        \E rowIndices \in IndexChoices(VarRows(key)),
           columnIndices \in IndexChoices(1) :
            LET after == setVariableScaling(m_scale, m_shift, key,
                            rowIndices, columnIndices, bounds)
            IN  /\ m_scale' = after.scale
                /\ m_shift' = after.shift
                /\ addressed' = addressed \cup
                        {<<key, r>> : r \in rowIndices \cap
                                            (0 .. VarRows(key) - 1)}
                /\ lastCall' = [op |-> "setVariableScaling", var |-> key,
                                rowIndices |-> rowIndices,
                                columnIndices |-> columnIndices,
                                bounds |-> bounds]
    /\ calls' = calls + 1
    /\ UNCHANGED <<runVars, cfg, pc, layoutVars, consVars, meshVars, m_lowerBounds,
                   m_upperBounds, scaled>>

\* scaleVariables on a fresh input, or on what unscaleVariables returned.
ScaleVariables ==
    /\ pc \in {"scaling", "unscaled"}
    /\ IF pc = "scaling"
        THEN scaled' = [op |-> "scale", in |-> SampleVariables,
                        out |-> scaleVariables(SampleVariables)]
        ELSE scaled' = [op |-> "unscale_scale", in |-> scaled.in,
                        mid |-> scaled.out,
                        out |-> scaleVariables(scaled.out)]
    /\ pc' = IF pc = "scaling" THEN "scaled" ELSE "done"
    /\ UNCHANGED <<runVars, cfg, layoutVars, consVars, meshVars, m_lowerBounds, m_upperBounds,
                   m_scale, m_shift, calls, lastCall, addressed>>

\* unscaleVariables on a fresh input, or on what scaleVariables returned.
UnscaleVariables ==
    /\ pc \in {"scaling", "scaled"}
    /\ IF pc = "scaling"
        THEN scaled' = [op |-> "unscale", in |-> SampleVariables,
                        out |-> unscaleVariables(SampleVariables)]
        ELSE scaled' = [op |-> "scale_unscale", in |-> scaled.in,
                        mid |-> scaled.out,
                        out |-> unscaleVariables(scaled.out)]
    /\ pc' = IF pc = "scaling" THEN "unscaled" ELSE "done"
    /\ UNCHANGED <<runVars, cfg, layoutVars, consVars, meshVars, m_lowerBounds, m_upperBounds,
                   m_scale, m_shift, calls, lastCall, addressed>>

NextScale ==
    \/ SetVariableBounds
    \/ SetVariableScaling
    \/ ScaleVariables
    \/ UnscaleVariables

SpecScale == InitScale /\ [][NextScale]_vars

-----------------------------------------------------------------------------
(* Properties of bounds and scaling. *)

\* The rows of kind k that setVariableScaling has written.
AddressedCells(k, m) ==
    {rc \in DOMAIN m.d : <<k, rc[1]>> \in addressed}

\* C6: for every (dilate, shift) pair written by setVariableScaling and
\* every value v, unscaling the scaled v gives v back and scaling the
\* unscaled v gives v back, in exact arithmetic.
ScaleUnscaleInverse ==
    pc = "done" =>
        \A k \in Kinds :
            \A rc \in AddressedCells(k, scaled.in[k]) :
                scaled.out[k].d[rc] = scaled.in[k].d[rc]

ScaleUnscaleInverseWitness ==
    /\ pc = "done"
    /\ scaled.op = "scale_unscale"
    /\ <<"states", 1>> \in addressed
    /\ m_scale["states"].d[<<1, 0>>] = Num(4)
    /\ m_shift["states"].d[<<1, 0>>] = Num(-1)
    /\ scaled.mid["states"].d[<<1, 1>>] # scaled.in["states"].d[<<1, 1>>]

\* The last call was setVariableScaling with scaling enabled.
LastScalingCall ==
    /\ lastCall.op = "setVariableScaling"
    /\ cfg.scaleVariablesUsingBounds

DegenerateBounds(bounds) ==
    LET width == Sub(bounds.upper, bounds.lower)
    IN  isinf(width) \/ isnan(width) \/ bounds.upper = bounds.lower

\* C7: with scaling enabled, setVariableScaling(kind, rows, cols, bounds)
\* writes, on every addressed entry, dilate = upper - lower and
\* shift = -(upper + lower) / 2 when the width is finite and non-zero,
\* dilate = 1 and shift = upper when upper = lower, and dilate = 1 and
\* shift = 0 when the width is infinite or NaN; in both degenerate cases
\* scaling a value v gives v - shift.
ScalingRule ==
    LastScalingCall =>
        LET lower == lastCall.bounds.lower
            upper == lastCall.bounds.upper
            width == Sub(upper, lower)
            dilate == m_scale[lastCall.var]
            shift == m_shift[lastCall.var]
        IN  \A rc \in DOMAIN dilate.d :
                (rc[1] \in lastCall.rowIndices
                        /\ rc[2] \in lastCall.columnIndices) =>
                    /\ IF isinf(width) \/ isnan(width)
                        THEN dilate.d[rc] = Num(1) /\ shift.d[rc] = Num(0)
                        ELSE IF upper = lower
                            THEN dilate.d[rc] = Num(1) /\ shift.d[rc] = upper
                            ELSE /\ dilate.d[rc] = width
                                 /\ shift.d[rc] =
                                        Neg(Div(Add(upper, lower), Num(2)))
                    /\ (scaled.op = "scale"
                            /\ DegenerateBounds(lastCall.bounds)) =>
                        \A c \in 0 .. scaled.in[lastCall.var].cols - 1 :
                            scaled.out[lastCall.var].d[<<rc[1], c>>] =
                                Sub(scaled.in[lastCall.var].d[<<rc[1], c>>],
                                    shift.d[rc])

ScalingRuleWitness ==
    /\ LastScalingCall
    /\ lastCall.var = "states"
    /\ lastCall.rowIndices = {1}
    /\ lastCall.bounds.lower = Num(2)
    /\ lastCall.bounds.upper = Num(2)
    /\ scaled.op = "scale"
    /\ m_scale["states"].d[<<0, 0>>] = Num(4)

\* C8: with scaling disabled, after any sequence of setVariableScaling
\* calls every addressed entry has dilate 1 and shift 0.
ScalingDisabledIdentity ==
    (pc # "bounds" /\ ~cfg.scaleVariablesUsingBounds) =>
        \A k \in Kinds :
            /\ \A rc \in AddressedCells(k, m_scale[k]) :
                    m_scale[k].d[rc] = Num(1)
            /\ \A rc \in AddressedCells(k, m_shift[k]) :
                    m_shift[k].d[rc] = Num(0)

ScalingDisabledIdentityWitness ==
    /\ ~cfg.scaleVariablesUsingBounds
    /\ lastCall.op = "setVariableScaling"
    /\ calls = 2
    /\ lastCall.bounds = [lower |-> Num(-1), upper |-> Num(3)]
    /\ {<<"states", 0>>, <<"states", 1>>, <<"controls", 0>>}
            \subseteq addressed

\* C9: setVariableBounds(kind, rows, cols, bounds) writes bounds.lower and
\* bounds.upper into the addressed block of kind's buffers when the bounds
\* are set, and -infinity and +infinity when they are unset; every entry
\* outside the block, every other kind's buffers and every buffer's shape
\* stay as they were.
SetVariableBoundsFrame ==
    [][(lastCall'.op = "setVariableBounds" /\ calls' = calls + 1) =>
        LET call == lastCall'
            set == ~isnan(call.bounds.lower) /\ ~isnan(call.bounds.upper)
            lower == IF set THEN call.bounds.lower ELSE NegInf
            upper == IF set THEN call.bounds.upper ELSE PosInf
        IN  /\ \A k \in Kinds :
                /\ m_lowerBounds'[k].rows = m_lowerBounds[k].rows
                /\ m_lowerBounds'[k].cols = m_lowerBounds[k].cols
                /\ m_upperBounds'[k].rows = m_upperBounds[k].rows
                /\ m_upperBounds'[k].cols = m_upperBounds[k].cols
                /\ DOMAIN m_lowerBounds'[k].d = DOMAIN m_lowerBounds[k].d
                /\ DOMAIN m_upperBounds'[k].d = DOMAIN m_upperBounds[k].d
                /\ \A rc \in DOMAIN m_lowerBounds[k].d :
                    IF /\ k = call.var
                       /\ rc[1] \in call.rowIndices
                       /\ rc[2] \in call.columnIndices
                        THEN /\ m_lowerBounds'[k].d[rc] = lower
                             /\ m_upperBounds'[k].d[rc] = upper
                        ELSE /\ m_lowerBounds'[k].d[rc] = m_lowerBounds[k].d[rc]
                             /\ m_upperBounds'[k].d[rc] = m_upperBounds[k].d[rc]
            /\ m_scale' = m_scale
            /\ m_shift' = m_shift
      ]_vars

SetVariableBoundsFrameWitness ==
    /\ lastCall.op = "setVariableBounds"
    /\ calls = 2
    /\ lastCall.var = "states"
    /\ lastCall.rowIndices = {1}
    /\ lastCall.columnIndices = {0}
    /\ lastCall.bounds = UnsetBounds
    /\ m_lowerBounds["states"].d[<<1, 0>>] = NegInf
    /\ m_upperBounds["states"].d[<<1, 0>>] = PosInf
    /\ m_lowerBounds["states"].d[<<1, 1>>] = Num(-1)
    /\ m_upperBounds["states"].d[<<0, 0>>] = Num(3)

-----------------------------------------------------------------------------
(* Mesh-point mask, control mask and quadrature coefficients of the        *)
(* Legendre-Gauss and Legendre-Gauss-Radau schemes.                        *)

\* matrix(i) with a single index: the i-th entry in column-major order.
LinearCell(m, i) == <<i % m.rows, i \div m.rows>>

\* matrix(i) = value
SetLinear(m, i, value) == [m EXCEPT !.d[LinearCell(m, i)] = value]

\* sum2(m) of a row vector: the sum of its entries.
Sum2(m) == SumSeq([i \in 1 .. m.cols |-> m.d[<<0, i - 1>>]])

\* The loop of createMeshIndicesImpl, from mesh interval imesh on; stride is
\* the number of grid points from one mesh point to the next.
RECURSIVE MarkMeshPoints(_, _, _)
MarkMeshPoints(indices, imesh, stride) ==
    IF imesh >= m_numMeshIntervals THEN indices
    ELSE MarkMeshPoints(SetLinear(indices, imesh * stride, 1),
                        imesh + 1, stride)

\* createMeshIndicesImpl without its last assignment.
LegendreGauss_createMeshIndicesImplOpenEnd ==
    MarkMeshPoints(Zeros(1, m_numGridPoints), 0, m_degree + 1)

LegendreGauss_createMeshIndicesImpl ==
    SetLinear(MarkMeshPoints(Zeros(1, m_numGridPoints), 0, m_degree + 1),
              m_numGridPoints - 1, 1)

LegendreGaussRadau_createMeshIndicesImpl ==
    SetLinear(MarkMeshPoints(Zeros(1, m_numGridPoints), 0, m_degree),
              m_numGridPoints - 1, 1)

\* Trapezoidal: the grid is the mesh, every grid column is a mesh point.
Trapezoidal_createMeshIndicesImpl == Filled(1, m_numGridPoints, 1)

createMeshIndicesImpl ==
    CASE cfg.scheme = "LegendreGauss" -> LegendreGauss_createMeshIndicesImpl
      [] cfg.scheme = "Trapezoidal" -> Trapezoidal_createMeshIndicesImpl
      [] cfg.scheme = "LegendreGaussRadau" ->
            LegendreGaussRadau_createMeshIndicesImpl
      [] cfg.scheme = "Derived" -> cfg.meshIndicesImpl

\* createMeshIndices without the check of the sum.
createMeshIndicesSumUnchecked ==
    LET indices == createMeshIndicesImpl
    IN  IF indices.rows # 1 \/ indices.cols # m_numGridPoints
            THEN [status |-> "shape_error", impl |-> indices]
        ELSE [status |-> "ok", impl |-> indices, meshIndices |-> indices]

\* The mask the scheme returned, and the mask createMeshIndices hands on
\* unless one of its two checks throws.
createMeshIndices ==
    LET indices == createMeshIndicesImpl
    IN  IF indices.rows # 1 \/ indices.cols # m_numGridPoints
            THEN [status |-> "shape_error", impl |-> indices]
        ELSE IF Sum2(indices) # m_numMeshPoints
            THEN [status |-> "sum_error", impl |-> indices]
        ELSE [status |-> "ok", impl |-> indices, meshIndices |-> indices]

\* The inner loop of LegendreGauss::createControlIndicesImpl.
RECURSIVE MarkCollocationPoints(_, _, _)
MarkCollocationPoints(indices, igrid, d) ==
    IF d >= m_degree THEN indices
    ELSE MarkCollocationPoints(SetLinear(indices, igrid + d + 1, 1),
                               igrid, d + 1)

\* The outer loop of LegendreGauss::createControlIndicesImpl.
RECURSIVE MarkControlPoints(_, _)
MarkControlPoints(indices, imesh) ==
    IF imesh >= m_numMeshIntervals THEN indices
    ELSE MarkControlPoints(
            MarkCollocationPoints(indices, imesh * (m_degree + 1), 0),
            imesh + 1)

LegendreGauss_createControlIndicesImpl ==
    MarkControlPoints(Zeros(1, m_numGridPoints), 0)

LegendreGaussRadau_createControlIndicesImpl ==
    SetLinear([rows |-> 1, cols |-> m_numGridPoints,
               d |-> [rc \in Cells(1, m_numGridPoints) |-> 1]], 0, 0)

createControlIndicesImpl ==
    CASE cfg.scheme = "LegendreGauss" ->
            LegendreGauss_createControlIndicesImpl
      [] cfg.scheme = "LegendreGaussRadau" ->
            LegendreGaussRadau_createControlIndicesImpl

\* Base weights twice as large as the scheme's.
m_quadratureCoefficientsDoubled ==
    [i \in DOMAIN cfg.quadratureCoefficients |->
        Mul(Num(2), cfg.quadratureCoefficients[i])]

\* The mesh, as fractions of the trajectory's duration, and the base
\* weights of one mesh interval.
Mesh == cfg.mesh
m_quadratureCoefficients == cfg.quadratureCoefficients

\* The time from the first mesh point to the end of mesh interval imesh.
MeshIntervalFromStart(imesh) == Sub(cfg.mesh[imesh + 2], cfg.mesh[1])

\* meshIntervals(imesh): the duration of mesh interval imesh.
MeshInterval(imesh) == Sub(Mesh[imesh + 2], Mesh[imesh + 1])

\* The inner loop with every weight one grid point early.
RECURSIVE AddIntervalWeightsEarly(_, _, _, _)
AddIntervalWeightsEarly(coeffs, imesh, igrid, d) ==
    IF d >= m_degree THEN coeffs
    ELSE AddIntervalWeightsEarly(
            SetLinear(coeffs, igrid + d,
                Add(coeffs.d[LinearCell(coeffs, igrid + d)],
                    Mul(cfg.quadratureCoefficients[d + 1],
                        Sub(cfg.mesh[imesh + 2], cfg.mesh[imesh + 1])))),
            imesh, igrid, d + 1)

\* The inner loop of createQuadratureCoefficientsImpl.
RECURSIVE AddIntervalWeights(_, _, _, _)
AddIntervalWeights(coeffs, imesh, igrid, d) ==
    IF d >= m_degree THEN coeffs
    ELSE AddIntervalWeights(
            SetLinear(coeffs, igrid + d + 1,
                Add(coeffs.d[LinearCell(coeffs, igrid + d + 1)],
                    Mul(m_quadratureCoefficients[d + 1],
                        MeshInterval(imesh)))),
            imesh, igrid, d + 1)

\* The outer loop of createQuadratureCoefficientsImpl; stride is the number
\* of grid points from one mesh point to the next.
RECURSIVE AddWeights(_, _, _)
AddWeights(coeffs, imesh, stride) ==
    IF imesh >= m_numMeshIntervals THEN coeffs
    ELSE AddWeights(AddIntervalWeights(coeffs, imesh, imesh * stride, 0),
                    imesh + 1, stride)

LegendreGauss_createQuadratureCoefficientsImpl ==
    AddWeights(Filled(m_numGridPoints, 1, Num(0)), 0, m_degree + 1)

LegendreGaussRadau_createQuadratureCoefficientsImpl ==
    AddWeights(Filled(m_numGridPoints, 1, Num(0)), 0, m_degree)

createQuadratureCoefficients ==
    CASE cfg.scheme = "LegendreGauss" ->
            LegendreGauss_createQuadratureCoefficientsImpl
      [] cfg.scheme = "LegendreGaussRadau" ->
            LegendreGaussRadau_createQuadratureCoefficientsImpl
      [] cfg.scheme = "Derived" -> cfg.quadratureCoefficientsImpl

-----------------------------------------------------------------------------
(* Specification of the masks and the quadrature coefficients: a scheme is *)
(* constructed on a mesh, and the three vectors are asked for.             *)

Less(x, y) == x[1] * y[2] < y[1] * x[2]

\* Interior mesh points are drawn from these fractions.
MeshFractions == {Ratio(1, 4), Ratio(1, 2), Ratio(3, 4)}

\* The increasing meshes from 0 to 1 with n intervals.
Meshes(n) ==
    {mesh \in [1 .. n + 1 -> {Num(0), Num(1)} \cup MeshFractions] :
        /\ mesh[1] = Num(0)
        /\ mesh[n + 1] = Num(1)
        /\ \A i \in 1 .. n : Less(mesh[i], mesh[i + 1])}

\* Base weights of one interval: equal, or growing along the interval.
Weights(degree) ==
    {[i \in 1 .. degree |-> Ratio(1, degree)],
     [i \in 1 .. degree |-> Ratio(2 * i, degree * (degree + 1))]}

MeshConfigs ==
    {[scheme |-> scheme, degree |-> degree, numMeshIntervals |-> n,
      mesh |-> mesh, quadratureCoefficients |-> w,
      interpolateControlMeshInteriorPoints |-> interp] :
        scheme \in Schemes, degree \in 1 .. MaxDegree, n \in 1 .. MaxMesh,
        mesh \in UNION {Meshes(i) : i \in 1 .. MaxMesh},
        w \in UNION {Weights(i) : i \in 1 .. MaxDegree},
        interp \in BOOLEAN}

InitMesh ==
    /\ cfg \in {c \in MeshConfigs :
                    /\ Len(c.mesh) = c.numMeshIntervals + 1
                    /\ Len(c.quadratureCoefficients) = c.degree}
    /\ pc = "mesh"
    /\ meshIndices = NotRun
    /\ controlIndices = NotRun
    /\ quadCoeffs = NotRun
    /\ trace = Idle
    /\ evalIn = Idle
    /\ evalOut = Idle
    /\ m_unscaledVars = Idle
    /\ order = Idle
    /\ flatVars = Idle
    /\ expandedVars = Idle
    /\ m_constraints = Idle
    /\ flatCons = Idle
    /\ rtCons = Idle
    /\ expCons = Idle
    /\ rtFlat = Idle
    /\ m_lowerBounds = Idle
    /\ m_upperBounds = Idle
    /\ m_scale = Idle
    /\ m_shift = Idle
    /\ calls = 0
    /\ lastCall = Idle
    /\ addressed = {}
    /\ scaled = Idle

CreateMeshIndices ==
    /\ pc = "mesh"
    /\ meshIndices = NotRun
    /\ meshIndices' = createMeshIndices
    /\ UNCHANGED <<runVars, cfg, pc, layoutVars, consVars, boundsVars,
                   controlIndices, quadCoeffs>>

CreateControlIndices ==
    /\ pc = "mesh"
    /\ controlIndices = NotRun
    /\ controlIndices' = [status |-> "ok", indices |-> createControlIndicesImpl]
    /\ UNCHANGED <<runVars, cfg, pc, layoutVars, consVars, boundsVars,
                   meshIndices, quadCoeffs>>

CreateQuadratureCoefficients ==
    /\ pc = "mesh"
    /\ quadCoeffs = NotRun
    /\ quadCoeffs' = [status |-> "ok", coeffs |-> createQuadratureCoefficients]
    /\ UNCHANGED <<runVars, cfg, pc, layoutVars, consVars, boundsVars,
                   meshIndices, controlIndices>>

\* getVariableOrder() asked of the scheme constructed on the mesh.
GetVariableOrderOnMesh ==
    /\ pc = "mesh"
    /\ order = Idle
    /\ order' = getVariableOrder
    /\ UNCHANGED <<runVars, cfg, pc, m_unscaledVars, flatVars, expandedVars, consVars,
                   boundsVars, meshVars>>

NextMesh ==
    \/ CreateMeshIndices
    \/ CreateControlIndices
    \/ CreateQuadratureCoefficients
    \/ GetVariableOrderOnMesh

SpecMesh == InitMesh /\ [][NextMesh]_vars

\* C10: for Legendre-Gauss (M * (d + 1) + 1 grid points) and
\* Legendre-Gauss-Radau (M * d + 1 grid points) with M mesh intervals and
\* degree d >= 1, createMeshIndicesImpl returns a 1 x numGridPoints vector
\* of zeros and ones, with a one exactly at the mesh-point columns
\* k * (d + 1), resp. k * d, for k = 0 .. M; its sum is M + 1 and its last
\* entry is one.
MeshIndicesMask ==
    (pc = "mesh" /\ meshIndices # NotRun) =>
        LET mask == meshIndices.impl
            M == cfg.numMeshIntervals
            d == cfg.degree
            stride == IF cfg.scheme = "LegendreGauss" THEN d + 1 ELSE d
            numGridPoints == M * stride + 1
        IN  /\ mask.rows = 1
            /\ mask.cols = numGridPoints
            /\ DOMAIN mask.d = {0} \X (0 .. numGridPoints - 1)
            /\ \A c \in 0 .. numGridPoints - 1 :
                /\ mask.d[<<0, c>>] \in {0, 1}
                /\ mask.d[<<0, c>>] = 1 <=> \E k \in 0 .. M : c = k * stride
            /\ Sum2(mask) = M + 1
            /\ mask.d[<<0, numGridPoints - 1>>] = 1

MeshIndicesMaskWitness ==
    /\ pc = "mesh"
    /\ meshIndices # NotRun
    /\ cfg.scheme = "LegendreGauss"
    /\ cfg.numMeshIntervals = 2
    /\ cfg.degree = 2
    /\ meshIndices.impl.d[<<0, 3>>] = 1
    /\ meshIndices.impl.d[<<0, 4>>] = 0

-----------------------------------------------------------------------------
(* Specification of a derived scheme: a subclass of Transcription whose    *)
(* createMeshIndicesImpl and createQuadratureCoefficientsImpl return any   *)
(* matrix at all.  The base class sees only what they return.              *)

\* The matrices with the given shape and entries.
Matrices(rows, cols, entries) ==
    {[rows |-> rows, cols |-> cols, d |-> d] :
        d \in [Cells(rows, cols) -> entries]}

\* What a derived scheme's createMeshIndicesImpl may return on a grid of n
\* points: a row of n - 1, n or n + 1 entries, or a column of n entries.
DerivedMasks(n) ==
    Matrices(1, n - 1, {0, 1}) \cup Matrices(1, n, {0, 1, 2})
        \cup Matrices(1, n + 1, {0, 1}) \cup Matrices(n, 1, {0, 1})

\* What its createQuadratureCoefficientsImpl may return.
DerivedCoefficients(n) ==
    {Filled(1, n, Num(1)), Filled(n, 1, Num(1)), Filled(1, n + 1, Num(1))}

\* The derived schemes with n mesh intervals of p points each.
DerivedConfigsOn(n, p) ==
    {[scheme |-> "Derived", numMeshIntervals |-> n,
      pointsPerMeshInterval |-> p, meshIndicesImpl |-> mask,
      quadratureCoefficientsImpl |-> coeffs] :
        mask \in DerivedMasks(n * (p - 1) + 1),
        coeffs \in DerivedCoefficients(n * (p - 1) + 1)}

DerivedConfigs ==
    UNION {DerivedConfigsOn(n, p) : n \in 1 .. MaxMesh, p \in {2, 3}}

InitDerived ==
    /\ cfg \in DerivedConfigs
    /\ pc = "mesh"
    /\ meshIndices = NotRun
    /\ controlIndices = NotRun
    /\ quadCoeffs = NotRun
    /\ trace = Idle
    /\ evalIn = Idle
    /\ evalOut = Idle
    /\ m_unscaledVars = Idle
    /\ order = Idle
    /\ flatVars = Idle
    /\ expandedVars = Idle
    /\ m_constraints = Idle
    /\ flatCons = Idle
    /\ rtCons = Idle
    /\ expCons = Idle
    /\ rtFlat = Idle
    /\ m_lowerBounds = Idle
    /\ m_upperBounds = Idle
    /\ m_scale = Idle
    /\ m_shift = Idle
    /\ calls = 0
    /\ lastCall = Idle
    /\ addressed = {}
    /\ scaled = Idle

NextDerived ==
    \/ CreateMeshIndices
    \/ CreateQuadratureCoefficients

SpecDerived == InitDerived /\ [][NextDerived]_vars

\* C11: createMeshIndices returns the scheme's mask only if the mask is a
\* 1 x numGridPoints row vector whose entries sum to numMeshPoints; for any
\* other shape or sum it raises an internal-consistency error and returns
\* no mask.
MeshIndicesChecked ==
    (pc = "mesh" /\ meshIndices # NotRun) =>
        LET mask == meshIndices.impl
            numGridPoints ==
                cfg.numMeshIntervals * (cfg.pointsPerMeshInterval - 1) + 1
        IN  IF /\ mask.rows = 1
               /\ mask.cols = numGridPoints
               /\ Sum2(mask) = cfg.numMeshIntervals + 1
                THEN /\ meshIndices.status = "ok"
                     /\ meshIndices.meshIndices = mask
                ELSE /\ meshIndices.status \in {"shape_error", "sum_error"}
                     /\ "meshIndices" \notin DOMAIN meshIndices

\* A row of the right length whose entries sum to the wrong number.
MeshIndicesCheckedWitness ==
    /\ pc = "mesh"
    /\ meshIndices # NotRun
    /\ cfg.scheme = "Derived"
    /\ cfg.numMeshIntervals = 2
    /\ cfg.pointsPerMeshInterval = 3
    /\ meshIndices.status = "sum_error"
    /\ meshIndices.impl.rows = 1
    /\ meshIndices.impl.cols = 5
    /\ meshIndices.impl.d[<<0, 4>>] = 1

-----------------------------------------------------------------------------
(* Properties of the quadrature coefficients. *)

\* The sum of the entries of q from the i-th on, in column-major order.
RECURSIVE SumFrom(_, _)
SumFrom(q, i) ==
    IF i >= Numel(q) THEN Num(0)
    ELSE Add(q.d[LinearCell(q, i)], SumFrom(q, i + 1))

\* Grid points from one mesh point to the next.
Stride == IF cfg.scheme = "LegendreGauss" THEN cfg.degree + 1 ELSE cfg.degree

QuadratureRan == pc = "mesh" /\ quadCoeffs # NotRun

\* C12: createQuadratureCoefficients hands on only a row vector of length
\* numGridPoints and rejects every other shape with an error; the vectors
\* of Legendre-Gauss and Legendre-Gauss-Radau pass.
QuadratureShapeChecked ==
    QuadratureRan =>
        /\ quadCoeffs.status = "ok" =>
            /\ quadCoeffs.coeffs.rows = 1
            /\ quadCoeffs.coeffs.cols = m_numGridPoints
        /\ cfg.scheme \in Schemes => quadCoeffs.status = "ok"

\* C13: for both Legendre schemes and every mesh, each interval
\* contributes its base weights times its own duration, every other entry
\* is zero, and with base weights summing to one the coefficients sum to
\* the duration of the trajectory, the last mesh point minus the first.
QuadratureSumIsDuration ==
    QuadratureRan =>
        LET q == quadCoeffs.coeffs
            M == cfg.numMeshIntervals
            weighted == {k * Stride + j : k \in 0 .. M - 1, j \in 1 .. cfg.degree}
        IN  /\ Numel(q) = M * Stride + 1
            /\ \A k \in 0 .. M - 1 : \A j \in 1 .. cfg.degree :
                q.d[LinearCell(q, k * Stride + j)] =
                    Mul(cfg.quadratureCoefficients[j],
                        Sub(cfg.mesh[k + 2], cfg.mesh[k + 1]))
            /\ \A i \in (0 .. M * Stride) \ weighted :
                q.d[LinearCell(q, i)] = Num(0)
            /\ SumFrom(q, 0) = Sub(cfg.mesh[M + 1], cfg.mesh[1])

QuadratureSumIsDurationWitness ==
    /\ QuadratureRan
    /\ cfg.scheme = "LegendreGaussRadau"
    /\ cfg.degree = 2
    /\ cfg.mesh = <<Num(0), Ratio(1, 4), Num(1)>>
    /\ cfg.quadratureCoefficients = <<Ratio(1, 3), Ratio(2, 3)>>
    /\ quadCoeffs.coeffs.d[<<4, 0>>] = Ratio(1, 2)

\* C14 as stated: the coefficients sum to the number of mesh points.
QuadratureSumIsMeshPoints ==
    QuadratureRan =>
        SumFrom(quadCoeffs.coeffs, 0) = Num(cfg.numMeshIntervals + 1)

\* C14: amended: on a mesh from 0 to 1 the coefficients sum to 1, whatever
\* the number of mesh points, and so to less than that number.
QuadratureSumIsOne ==
    QuadratureRan =>
        /\ SumFrom(quadCoeffs.coeffs, 0) = Num(1)
        /\ Less(SumFrom(quadCoeffs.coeffs, 0), Num(cfg.numMeshIntervals + 1))

QuadratureSumIsOneWitness ==
    /\ QuadratureRan
    /\ cfg.scheme = "LegendreGauss"
    /\ cfg.degree = 2
    /\ cfg.numMeshIntervals = 2
    /\ cfg.mesh = <<Num(0), Ratio(3, 4), Num(1)>>
    /\ quadCoeffs.coeffs.d[<<1, 0>>] = Ratio(3, 8)

\* C15 as stated: every grid column the mesh-point mask marks has
\* quadrature coefficient zero.
MeshPointsCarryNoWeight ==
    (QuadratureRan /\ meshIndices # NotRun) =>
        \A c \in 0 .. m_numGridPoints - 1 :
            meshIndices.impl.d[<<0, c>>] = 1 =>
                quadCoeffs.coeffs.d[LinearCell(quadCoeffs.coeffs, c)] = Num(0)

\* C15: amended: for Legendre-Gauss the coefficient is zero exactly at the
\* mesh points; for Legendre-Gauss-Radau it is zero at the first grid point
\* only, and the mesh point closing interval k carries the last base weight
\* times the duration of interval k.
WeightAtMeshPoints ==
    (QuadratureRan /\ meshIndices # NotRun) =>
        LET q == quadCoeffs.coeffs
            mask == meshIndices.impl
        IN  \A c \in 0 .. m_numGridPoints - 1 :
                IF cfg.scheme = "LegendreGauss"
                    THEN (q.d[LinearCell(q, c)] = Num(0))
                            <=> (mask.d[<<0, c>>] = 1)
                    ELSE /\ (q.d[LinearCell(q, c)] = Num(0)) <=> (c = 0)
                         /\ (c > 0 /\ mask.d[<<0, c>>] = 1) =>
                                q.d[LinearCell(q, c)] =
                                    Mul(cfg.quadratureCoefficients[cfg.degree],
                                        Sub(cfg.mesh[(c \div cfg.degree) + 1],
                                            cfg.mesh[c \div cfg.degree]))

WeightAtMeshPointsWitness ==
    /\ QuadratureRan
    /\ meshIndices # NotRun
    /\ cfg.scheme = "LegendreGaussRadau"
    /\ cfg.degree = 2
    /\ cfg.numMeshIntervals = 2
    /\ meshIndices.impl.d[<<0, 2>>] = 1
    /\ quadCoeffs.coeffs.d[<<2, 0>>] # Num(0)

-----------------------------------------------------------------------------
(* Properties of the variable order. *)

\* The positions of entry e in the order, and the one position of an entry
\* that occurs once.
PositionsOf(e) == {i \in DOMAIN order : order[i] = e}
PositionOf(e) == CHOOSE i \in PositionsOf(e) : TRUE

\* C16: in the Legendre-Gauss order with M mesh intervals no
\* projection_states or slacks entry lies in the block of interval 0; for
\* k in 0 .. M - 2 the entries (projection_states, k) and (slacks, k) lie
\* in the block of interval k + 1, after its initial_time, final_time and
\* parameters entries and before its states entries; the entries of
\* interval M - 1 lie in the final block before the last state column; and
\* every interval index occurs exactly once for each of the two kinds.
ProjectionStatesInNextBlock ==
    (pc \in {"ordered", "flattened", "expanded"}
            /\ cfg.scheme = "LegendreGauss") =>
        LET M == cfg.numMeshIntervals
            N == cfg.degree + 1
        IN  \A kind \in {"projection_states", "slacks"} :
            /\ \A i \in DOMAIN order :
                order[i][1] = kind =>
                    /\ order[i][2] \in 0 .. M - 1
                    /\ i > PositionOf(<<"initial_time", 1>>)
            /\ \A k \in 0 .. M - 1 : Cardinality(PositionsOf(<<kind, k>>)) = 1
            /\ \A k \in 0 .. M - 2 :
                /\ PositionOf(<<"initial_time", k + 1>>)
                        < PositionOf(<<kind, k>>)
                /\ PositionOf(<<"final_time", k + 1>>)
                        < PositionOf(<<kind, k>>)
                /\ PositionOf(<<"parameters", k + 1>>)
                        < PositionOf(<<kind, k>>)
                /\ \A i \in 0 .. N - 1 :
                    PositionOf(<<kind, k>>)
                        < PositionOf(<<"states", (k + 1) * N + i>>)
                /\ PositionOf(<<kind, k>>)
                        < PositionOf(<<"initial_time", k + 2>>)
            /\ PositionOf(<<"initial_time", M>>) < PositionOf(<<kind, M - 1>>)
            /\ PositionOf(<<"final_time", M>>) < PositionOf(<<kind, M - 1>>)
            /\ PositionOf(<<"parameters", M>>) < PositionOf(<<kind, M - 1>>)
            /\ PositionOf(<<kind, M - 1>>) < PositionOf(<<"states", M * N>>)

ProjectionStatesInNextBlockWitness ==
    /\ pc = "ordered"
    /\ cfg.scheme = "LegendreGauss"
    /\ cfg.numMeshIntervals = 2
    /\ cfg.degree = 2
    /\ order[PositionOf(<<"slacks", 0>>) + 1] = <<"states", 3>>
    /\ order[PositionOf(<<"projection_states", 1>>) + 2] = <<"states", 6>>

\* The grid columns of the control entries of the order, and the grid
\* columns createControlIndicesImpl marks.
OrderedControlColumns ==
    {order[i][2] : i \in {j \in DOMAIN order : order[j][1] = "controls"}}
MarkedControlColumns ==
    {c \in 0 .. controlIndices.indices.cols - 1 :
        controlIndices.indices.d[<<0, c>>] = 1}

\* C17: with control interpolation at mesh-interior points enabled, for
\* both Legendre schemes the control columns getVariableOrder lists are
\* exactly the grid columns createControlIndicesImpl marks with 1.
ControlOrderMatchesMask ==
    (pc = "mesh" /\ order # Idle /\ controlIndices # NotRun
            /\ cfg.interpolateControlMeshInteriorPoints) =>
        OrderedControlColumns = MarkedControlColumns

-----------------------------------------------------------------------------
(* The sparsity of the flattened constraints: the grid columns each        *)
(* defects column depends on, and the grid columns of the residuals that   *)
(* flattenConstraints copies around it.                                    *)

\* calcDefectsImpl of Legendre-Gauss-Radau reading only the derivative
\* columns of the interval.
LegendreGaussRadau_calcDefectsColumnsNoStart(imesh) ==
    LET igrid == imesh * m_degree
    IN  (igrid + 1) .. (igrid + m_degree)

\* The grid columns defects column imesh is computed from: x[imesh] holds
\* the m_degree + 2 grid points of the interval.
LegendreGauss_calcDefectsColumns(imesh) ==
    LET igrid == imesh * (m_degree + 1)
    IN  (igrid .. (igrid + m_degree))
            \cup ((igrid + 1) .. (igrid + m_degree))
            \cup {igrid + m_degree + 1}

\* x_i = x(:, igrid .. igrid + m_degree), xdot_i = xdot(:, igrid + 1 ..
\* igrid + m_degree).
LegendreGaussRadau_calcDefectsColumns(imesh) ==
    LET igrid == imesh * m_degree
    IN  (igrid .. (igrid + m_degree)) \cup ((igrid + 1) .. (igrid + m_degree))

calcDefectsColumns(imesh) ==
    CASE cfg.scheme = "LegendreGauss" -> LegendreGauss_calcDefectsColumns(imesh)
      [] cfg.scheme = "LegendreGaussRadau" ->
            LegendreGaussRadau_calcDefectsColumns(imesh)

\* Grid columns per mesh interval of the two patterns drawn in
\* flattenConstraints, the shared end column included.
TrapezoidalColumnsPerInterval == 2
HermiteSimpsonColumnsPerInterval == 3

IsResidual(e) == e[1] = "multibody_residuals"
ResidualEntries == SelectSeq(flatCons.copied, IsResidual)
CopiedAt(e) == CHOOSE i \in DOMAIN flatCons.copied : flatCons.copied[i] = e

\* The flattened constraints have the drawn pattern with the given number
\* of grid columns per interval: defect_k spans the interval's columns,
\* the residuals of all but the interval's last column follow defect_k and
\* precede defect_(k+1), and the residual of the final column closes.
FlattenedLike(columnsPerInterval) ==
    LET N == columnsPerInterval - 1
        res == ResidualEntries
        copied == {flatCons.copied[i] : i \in DOMAIN flatCons.copied}
    IN  /\ [i \in 1 .. Len(res) |-> res[i][3]]
                = [i \in 1 .. N * m_numMeshIntervals + 1 |-> i - 1]
        /\ \A k \in 0 .. m_numMeshIntervals - 1 :
            /\ calcDefectsColumns(k) = (N * k) .. (N * k + N)
            /\ <<"defects", 0, k>> \in copied
            /\ CopiedAt(<<"defects", 0, k>>)
                    < CopiedAt(<<"multibody_residuals", 0, N * k>>)
            /\ k > 0 =>
                CopiedAt(<<"multibody_residuals", 0, N * k - 1>>)
                    < CopiedAt(<<"defects", 0, k>>)

DegreeOneFlattened(scheme) ==
    /\ pc = "cons"
    /\ cfg.scheme = scheme
    /\ cfg.degree = 1
    /\ cfg.numMultibodyResiduals > 0
    /\ flatCons # NotRun
    /\ flatCons.status = "ok"

-----------------------------------------------------------------------------
(* calcDefectsImpl of Legendre-Gauss-Radau: the defects matrix, one column *)
(* per mesh interval.  ti and tf hold one copy of the initial and final    *)
(* time per mesh point (0-based index k is element k + 1), p one column    *)
(* of parameters per mesh point; residual[imesh + 1] stands for the value  *)
(* of h * xdot_i - x_i * m_differentiationMatrix on interval imesh.        *)

\* The rows calcDefectsImpl of Legendre-Gauss-Radau would write with the
\* residual blocks starting at row 2, below the parameter rows.
LegendreGaussRadau_calcDefectsRowsNoParameters(imesh) ==
    LET NS == cfg.numStates
        NP == cfg.numParameters
    IN  <<[rows |-> 0 .. 0, col |-> imesh], [rows |-> 1 .. 1, col |-> imesh],
          [rows |-> 2 .. (2 + NP - 1), col |-> imesh]>>
        \o [d \in 1 .. m_degree |->
                [rows |-> ((d - 1) * NS + 2) .. (d * NS + 2 - 1),
                 col |-> imesh]]

\* The assignments calcDefectsImpl makes for interval imesh, in program
\* order: the rows of each Slice and the column written.
LegendreGauss_calcDefectsRows(imesh) ==
    LET NS == cfg.numStates
    IN  <<[rows |-> 0 .. (NS - 1), col |-> imesh]>>
        \o [d \in 1 .. m_degree |->
                [rows |-> (d * NS) .. ((d + 1) * NS - 1), col |-> imesh]]

LegendreGaussRadau_calcDefectsRows(imesh) ==
    LET NS == cfg.numStates
        NP == cfg.numParameters
    IN  <<[rows |-> 0 .. 0, col |-> imesh], [rows |-> 1 .. 1, col |-> imesh],
          [rows |-> 2 .. (2 + NP - 1), col |-> imesh]>>
        \o [d \in 1 .. m_degree |->
                [rows |-> ((d - 1) * NS + 2 + NP) .. (d * NS + 2 + NP - 1),
                 col |-> imesh]]

\* calcDefectsImpl of Legendre-Gauss: endState[imesh + 1] stands for
\* x_ip1 - x_i * m_interpolationCoefficients on interval imesh.
LegendreGauss_calcDefectsImpl(endState, residual) ==
    LET NS == cfg.numStates
    IN  [rows |-> m_numDefectsPerMeshInterval, cols |-> m_numMeshIntervals,
         d |-> [rc \in Cells(m_numDefectsPerMeshInterval, m_numMeshIntervals) |->
            LET r == rc[1]
                imesh == rc[2]
            IN  IF r < NS THEN endState[imesh + 1].d[<<r, 0>>]
                ELSE residual[imesh + 1].d[<<(r - NS) % NS,
                                             (r - NS) \div NS>>]]]

\* calcDefectsImpl with the final-time row written from the initial times.
LegendreGaussRadau_calcDefectsImplTimeRows(residual, ti, tf, p) ==
    LET NS == cfg.numStates
        NP == cfg.numParameters
    IN  [rows |-> m_numDefectsPerMeshInterval, cols |-> m_numMeshIntervals,
         d |-> [rc \in Cells(m_numDefectsPerMeshInterval, m_numMeshIntervals) |->
            LET r == rc[1]
                imesh == rc[2]
            IN  IF r = 0 THEN ti[imesh + 2] - ti[imesh + 1]
                ELSE IF r = 1 THEN ti[imesh + 2] - ti[imesh + 1]
                ELSE IF r < 2 + NP
                    THEN p.d[<<r - 2, imesh + 1>>] - p.d[<<r - 2, imesh>>]
                ELSE residual[imesh + 1].d[<<(r - 2 - NP) % NS,
                                             (r - 2 - NP) \div NS>>]]]

LegendreGaussRadau_calcDefectsImpl(residual, ti, tf, p) ==
    LET NS == cfg.numStates
        NP == cfg.numParameters
    IN  [rows |-> m_numDefectsPerMeshInterval, cols |-> m_numMeshIntervals,
         d |-> [rc \in Cells(m_numDefectsPerMeshInterval, m_numMeshIntervals) |->
            LET r == rc[1]
                imesh == rc[2]
            IN  IF r = 0 THEN ti[imesh + 2] - ti[imesh + 1]
                ELSE IF r = 1 THEN tf[imesh + 2] - tf[imesh + 1]
                ELSE IF r < 2 + NP
                    THEN p.d[<<r - 2, imesh + 1>>] - p.d[<<r - 2, imesh>>]
                ELSE residual[imesh + 1].d[<<(r - 2 - NP) % NS,
                                             (r - 2 - NP) \div NS>>]]]

\* Values of the time and parameter copies.
CopyValues == {0, 1}

\* residual(:, d) of interval imesh, every entry nonzero and its own.
SampleResidual ==
    [i \in 1 .. m_numMeshIntervals |->
        [rows |-> cfg.numStates, cols |-> m_degree,
         d |-> [rc \in Cells(cfg.numStates, m_degree) |->
                    100 * i + 10 * rc[2] + rc[1] + 1]]]

DefectsConfigsOn(degree, M, NS, NP) ==
    {[scheme |-> "LegendreGaussRadau", degree |-> degree,
      numMeshIntervals |-> M, numStates |-> NS, numParameters |-> NP,
      ti |-> ti, tf |-> tf, p |-> [rows |-> NP, cols |-> M + 1, d |-> pd]] :
        ti \in [1 .. M + 1 -> CopyValues], tf \in [1 .. M + 1 -> CopyValues],
        pd \in [Cells(NP, M + 1) -> CopyValues]}

DefectsConfigs ==
    UNION {DefectsConfigsOn(degree, M, NS, NP) :
            degree \in 1 .. MaxDegree, M \in 1 .. MaxMesh,
            NS \in 1 .. MaxDim, NP \in 0 .. 1}
    \cup {[scheme |-> "LegendreGauss", degree |-> degree,
            numMeshIntervals |-> M, numStates |-> NS, numParameters |-> NP,
            ti |-> [i \in 1 .. M + 1 |-> 0], tf |-> [i \in 1 .. M + 1 |-> 1],
            p |-> Filled(NP, M + 1, 0)] :
                degree \in 1 .. MaxDegree, M \in 1 .. MaxMesh,
                NS \in 1 .. MaxDim, NP \in 0 .. 1}

InitDefects ==
    /\ cfg \in DefectsConfigs
    /\ pc = "defects"
    /\ m_constraints = NotRun
    /\ flatCons = Idle
    /\ rtCons = Idle
    /\ expCons = Idle
    /\ rtFlat = Idle
    /\ m_unscaledVars = Idle
    /\ order = Idle
    /\ flatVars = Idle
    /\ expandedVars = Idle
    /\ m_lowerBounds = Idle
    /\ m_upperBounds = Idle
    /\ m_scale = Idle
    /\ m_shift = Idle
    /\ calls = 0
    /\ lastCall = Idle
    /\ addressed = {}
    /\ scaled = Idle
    /\ meshIndices = Idle
    /\ controlIndices = Idle
    /\ quadCoeffs = Idle
    /\ trace = Idle
    /\ evalIn = Idle
    /\ evalOut = Idle

\* calcDefectsImpl fills the defects slot of the constraints.
CalcDefects ==
    /\ pc = "defects"
    /\ m_constraints = NotRun
    /\ m_constraints' =
            [status |-> "ok",
             defects |->
                IF cfg.scheme = "LegendreGauss"
                    THEN LegendreGauss_calcDefectsImpl(
                            [i \in 1 .. m_numMeshIntervals |->
                                Filled(cfg.numStates, 1, 1000 * i)],
                            SampleResidual)
                    ELSE LegendreGaussRadau_calcDefectsImpl(
                            SampleResidual, cfg.ti, cfg.tf, cfg.p),
             writes |->
                [i \in 1 .. m_numMeshIntervals |->
                    IF cfg.scheme = "LegendreGauss"
                        THEN LegendreGauss_calcDefectsRows(i - 1)
                        ELSE LegendreGaussRadau_calcDefectsRows(i - 1)],
             reads |->
                [i \in 1 .. m_numMeshIntervals |-> calcDefectsColumns(i - 1)]]
    /\ UNCHANGED <<runVars, cfg, pc, layoutVars, boundsVars, meshVars, flatCons,
                   rtCons, expCons, rtFlat>>

NextDefects == CalcDefects

SpecDefects == InitDefects /\ [][NextDefects]_vars

DefectsComputed == pc = "defects" /\ m_constraints # NotRun

ContinuityRowsZero ==
    \A k \in 0 .. m_numMeshIntervals - 1 :
        \A r \in 0 .. 1 + cfg.numParameters :
            m_constraints.defects.d[<<r, k>>] = 0

\* C19: for Legendre-Gauss-Radau, rows 0, 1 and 2..2+NP-1 of defects
\* column k are ti(k+1) - ti(k), tf(k+1) - tf(k) and p(:,k+1) - p(:,k);
\* if those rows are zero for every interval, all M + 1 copies of the
\* initial time, of the final time and of each parameter are equal.
TimeParameterContinuity ==
    (DefectsComputed /\ cfg.scheme = "LegendreGaussRadau") =>
        /\ \A k \in 0 .. m_numMeshIntervals - 1 :
            /\ m_constraints.defects.d[<<0, k>>] = cfg.ti[k + 2] - cfg.ti[k + 1]
            /\ m_constraints.defects.d[<<1, k>>] = cfg.tf[k + 2] - cfg.tf[k + 1]
            /\ \A r \in 0 .. cfg.numParameters - 1 :
                m_constraints.defects.d[<<2 + r, k>>]
                    = cfg.p.d[<<r, k + 1>>] - cfg.p.d[<<r, k>>]
        /\ ContinuityRowsZero =>
            \A i, j \in 0 .. m_numMeshIntervals :
                /\ cfg.ti[i + 1] = cfg.ti[j + 1]
                /\ cfg.tf[i + 1] = cfg.tf[j + 1]
                /\ \A r \in 0 .. cfg.numParameters - 1 :
                    cfg.p.d[<<r, i>>] = cfg.p.d[<<r, j>>]

TimeParameterContinuityWitness ==
    /\ DefectsComputed
    /\ cfg.scheme = "LegendreGaussRadau"
    /\ ContinuityRowsZero
    /\ m_numMeshIntervals = 2
    /\ cfg.numParameters = 1
    /\ cfg.tf[1] = 1

-----------------------------------------------------------------------------
(* Construction of the Trapezoidal scheme.  The constructor's result is    *)
(* the members the instance is left with; a constructor that throws        *)
(* leaves no instance, so no member function can run on it.                *)

\* createVariablesAndSetBounds: allocates the variable buffers and
\* initialises the bounds and the scaling of every kind.
createVariablesAndSetBounds ==
    [status |-> "ok",
     m_unscaledVars |-> createVariables("zero"),
     m_lowerBounds |->
        [k \in Kinds |-> Filled(VarRows(k), VarColumns(k), NegInf)],
     m_upperBounds |->
        [k \in Kinds |-> Filled(VarRows(k), VarColumns(k), PosInf)],
     m_scale |-> [k \in Kinds |-> Filled(VarRows(k), 1, Num(1))],
     m_shift |-> [k \in Kinds |-> Filled(VarRows(k), 1, Num(0))]]

\* The members when the constructor throws before any buffer exists.
NoBuffers(status) ==
    [status |-> status, m_unscaledVars |-> Idle, m_lowerBounds |-> Idle,
     m_upperBounds |-> Idle, m_scale |-> Idle, m_shift |-> Idle]

\* The constructor with the option tested after the buffers are created.
Trapezoidal_TrapezoidalCheckLast ==
    IF cfg.enforceConstraintDerivatives
        THEN [createVariablesAndSetBounds EXCEPT !.status = "config_error"]
        ELSE createVariablesAndSetBounds

Trapezoidal_Trapezoidal ==
    IF cfg.enforceConstraintDerivatives
        THEN NoBuffers("config_error")
        ELSE createVariablesAndSetBounds

\* The mesh of n equal intervals on [0, 1].
UniformMesh(n) == [i \in 1 .. n + 1 |-> Ratio(i - 1, n)]

\* countDelta # 0: a precomputed constraint total that disagrees with the
\* traversal, the defect the final check of flattenConstraints guards.
TrapezoidalConfigs ==
    {[scheme |-> "Trapezoidal", degree |-> 0, numMeshIntervals |-> M,
      mesh |-> UniformMesh(M), layout |-> "single",
      numStates |-> NS, numControls |-> NC, numMultipliers |-> 0,
      numDerivatives |-> 0, numParameters |-> NP, numProjectionStates |-> 0,
      numSlacks |-> 0, enforceConstraintDerivatives |-> ecd,
      numParameterConstraints |-> 0, numMultibodyResiduals |-> 0,
      numAuxiliaryResiduals |-> 0, numKinematicConstraintEquations |-> 0,
      endpointOutputs |-> <<>>, pathSizes |-> <<>>,
      enforcePathConstraintMidpoints |-> FALSE, interpolateControls |-> FALSE,
      consLayout |-> "addressed", countDelta |-> delta] :
        M \in 1 .. MaxMesh + 1, NS \in 1 .. MaxDim, NC \in 0 .. 1,
        NP \in 0 .. 1, ecd \in BOOLEAN, delta \in {-1, 0, 1}}

InitTrapezoidal ==
    /\ cfg \in TrapezoidalConfigs
    /\ pc = "new"
    /\ m_unscaledVars = Idle
    /\ m_lowerBounds = Idle
    /\ m_upperBounds = Idle
    /\ m_scale = Idle
    /\ m_shift = Idle
    /\ calls = 0
    /\ lastCall = [op |-> "none"]
    /\ addressed = {}
    /\ scaled = [op |-> "none"]
    /\ order = Idle
    /\ flatVars = Idle
    /\ expandedVars = Idle
    /\ m_constraints = Idle
    /\ flatCons = Idle
    /\ rtCons = Idle
    /\ expCons = Idle
    /\ rtFlat = Idle
    /\ meshIndices = Idle
    /\ controlIndices = Idle
    /\ quadCoeffs = Idle
    /\ trace = Idle
    /\ evalIn = Idle
    /\ evalOut = Idle

\* Trapezoidal(solver, problem).  Member functions (here the scaling of
\* the variables handed to the solver) run only on a constructed instance.
ConstructTrapezoidal ==
    /\ pc = "new"
    /\ LET made == Trapezoidal_Trapezoidal
       IN  /\ pc' = IF made.status = "ok" THEN "scaling" ELSE made.status
           /\ m_unscaledVars' = made.m_unscaledVars
           /\ m_lowerBounds' = made.m_lowerBounds
           /\ m_upperBounds' = made.m_upperBounds
           /\ m_scale' = made.m_scale
           /\ m_shift' = made.m_shift
           /\ meshIndices' =
                IF made.status = "ok" THEN createMeshIndices ELSE meshIndices
           /\ trace' =
                IF made.status = "ok"
                    THEN Append(trace, "createVariablesAndSetBounds")
                    ELSE trace
    /\ UNCHANGED <<cfg, order, flatVars, expandedVars, consVars,
                   controlIndices, quadCoeffs, calls, lastCall, addressed,
                   scaled, evalIn, evalOut>>

\* T::veccat of the buffers in sorted key order.
flattenVariables(v) ==
    ConcatAll([i \in 1 .. Len(getSortedVarKeys) |->
        ConcatAll([c \in 1 .. v[getSortedVarKeys[i]].cols |->
            Column(v[getSortedVarKeys[i]], c - 1)])])

\* DM::zeros of the shape of every slot of c.
ZeroConstraints(c) ==
    LET Z(m) == Zeros(m.rows, m.cols)
    IN  [initial_time |-> Z(c.initial_time), final_time |-> Z(c.final_time),
         parameters |-> Z(c.parameters), defects |-> Z(c.defects),
         multibody_residuals |-> Z(c.multibody_residuals),
         auxiliary_residuals |-> Z(c.auxiliary_residuals),
         kinematic |-> Z(c.kinematic),
         endpoint |-> [i \in DOMAIN c.endpoint |-> Z(c.endpoint[i])],
         path |-> [i \in DOMAIN c.path |-> Z(c.path[i])],
         interp_controls |-> Z(c.interp_controls)]

\* transcribe() re-creating the variable buffers on every solve.
TranscribeRecreating ==
    /\ pc = "scaling"
    /\ calls < MaxCalls
    /\ calls' = calls + 1
    /\ m_constraints' = createConstraints
    /\ trace' = trace \o <<"createVariablesAndSetBounds", "transcribe">>
    /\ pc' = "transcribed"
    /\ UNCHANGED <<cfg, layoutVars, flatCons, rtCons, expCons, rtFlat,
                   m_lowerBounds, m_upperBounds, m_scale, m_shift, lastCall,
                   addressed, scaled, meshVars, evalIn, evalOut>>

\* solve(), first statement: transcribe() assembles the constraints.
Transcribe ==
    /\ pc = "scaling"
    /\ calls < MaxCalls
    /\ calls' = calls + 1
    /\ m_constraints' = createConstraints
    /\ trace' = Append(trace, "transcribe")
    /\ pc' = "transcribed"
    /\ UNCHANGED <<cfg, layoutVars, flatCons, rtCons, expCons, rtFlat,
                   m_lowerBounds, m_upperBounds, m_scale, m_shift, lastCall,
                   addressed, scaled, meshVars, evalIn, evalOut>>

\* DefineNLP handing x and g to nlpsol whatever flattenConstraints did.
DefineNLPUnchecked ==
    /\ pc = "transcribed"
    /\ flatVars' = [err |-> FALSE, x |-> flattenVariables(m_unscaledVars)]
    /\ flatCons' = flattenConstraints(m_constraints)
    /\ trace' = trace \o <<"flattenVariables", "flattenConstraints", "nlpsol">>
    /\ pc' = IF flatCons'.status = "ok" THEN "nlp" ELSE "internal_error"
    /\ UNCHANGED <<cfg, m_unscaledVars, order, expandedVars, m_constraints,
                   rtCons, expCons, rtFlat, boundsVars, meshVars, evalIn,
                   evalOut>>

\* solve(): x = flattenVariables(m_variables), g = flattenConstraints(
\* m_constraints), then nlpsol("nlp", "ipopt", {x, f, g}).  An exception
\* in flattenConstraints ends solve() before nlpsol is reached.
DefineNLP ==
    /\ pc = "transcribed"
    /\ flatVars' = [err |-> FALSE, x |-> flattenVariables(m_unscaledVars)]
    /\ flatCons' = flattenConstraints(m_constraints)
    /\ IF flatCons'.status = "ok"
        THEN /\ trace' = trace \o <<"flattenVariables", "flattenConstraints",
                                     "nlpsol">>
             /\ pc' = "nlp"
        ELSE /\ trace' = trace \o <<"flattenVariables", "flattenConstraints">>
             /\ pc' = "internal_error"
    /\ UNCHANGED <<cfg, m_unscaledVars, order, expandedVars, m_constraints,
                   rtCons, expCons, rtFlat, boundsVars, meshVars, evalIn,
                   evalOut>>

\* solve(): nlpFunc({x0, lbx, ubx, lbg, ubg}); the five arguments are
\* flattened before the call, and an exception among them ends solve()
\* without the call.  rtFlat keeps lbg and ubg.  The solver's result is
\* not part of the state; solve() returns and can be called again.
CallSolver ==
    /\ pc = "nlp"
    /\ LET x0 == flattenVariables(m_unscaledVars)
           lbx == flattenVariables(m_lowerBounds)
           ubx == flattenVariables(m_upperBounds)
           lbg == flattenConstraints(ZeroConstraints(m_constraints))
           ubg == flattenConstraints(ZeroConstraints(m_constraints))
       IN  /\ rtFlat' = [lbg |-> lbg, ubg |-> ubg]
           /\ IF lbg.status # "ok"
                THEN /\ trace' = trace \o <<"flattenVariables",
                            "flattenVariables", "flattenVariables",
                            "flattenConstraints">>
                     /\ pc' = "internal_error"
                ELSE /\ trace' = trace \o <<"flattenVariables",
                            "flattenVariables", "flattenVariables",
                            "flattenConstraints", "flattenConstraints",
                            "nlpFunc">>
                     /\ pc' = "scaling"
    /\ UNCHANGED <<cfg, layoutVars, m_constraints, flatCons, rtCons, expCons,
                   boundsVars, meshVars, evalIn, evalOut>>

NextTrapezoidal ==
    \/ ConstructTrapezoidal
    \/ ScaleVariables
    \/ UnscaleVariables
    \/ Transcribe
    \/ DefineNLP
    \/ CallSolver

SpecTrapezoidal == InitTrapezoidal /\ [][NextTrapezoidal]_vars

\* C20: constructing the Trapezoidal scheme with constraint-derivative
\* enforcement requested fails with a configuration error raised before
\* createVariablesAndSetBounds runs: the instance never has variable,
\* bounds or scaling buffers and never produces solver input.
TrapezoidalRejected ==
    cfg.enforceConstraintDerivatives =>
        /\ pc \in {"new", "config_error"}
        /\ m_unscaledVars = Idle
        /\ m_lowerBounds = Idle
        /\ m_upperBounds = Idle
        /\ m_scale = Idle
        /\ m_shift = Idle
        /\ scaled = [op |-> "none"]

TrapezoidalRejectedWitness ==
    /\ cfg.enforceConstraintDerivatives
    /\ pc = "config_error"

-----------------------------------------------------------------------------
(* Further properties of scaling. *)

\* C29: after any sequence of setVariableScaling calls, with scaling
\* enabled or disabled and bounds set, unset, infinite or of zero width,
\* every dilate entry that has been written is non-zero, so scaleVariables
\* never divides by zero: the scaled value of a finite input is finite.
DilateNonZero ==
    pc \in {"scaling", "scaled", "unscaled", "done"} =>
        \A k \in Kinds :
            /\ \A rc \in AddressedCells(k, m_scale[k]) :
                    /\ m_scale[k].d[rc] # Num(0)
                    /\ ~isnan(m_scale[k].d[rc])
            /\ scaled.op = "scale" =>
                \A rc \in AddressedCells(k, scaled.out[k]) :
                    ~isinf(scaled.out[k].d[rc]) /\ ~isnan(scaled.out[k].d[rc])

DilateNonZeroWitness ==
    /\ LastScalingCall
    /\ calls = 2
    /\ lastCall.bounds = [lower |-> Num(2), upper |-> Num(2)]
    /\ lastCall.var = "controls"
    /\ scaled.op = "scale"

\* scaleVariables applied to the value v in every row of kind key.
ScaledValueOf(key, v) ==
    scaleVariables([k \in {key} |-> Filled(VarRows(key), 1, v)])[key]

FiniteWidth(bounds) ==
    /\ ~DegenerateBounds(bounds)
    /\ Less(bounds.lower, bounds.upper)

\* C30: with scaling enabled and finite bounds lower < upper,
\* scaleVariables maps lower to -1/2 and upper to +1/2 on every entry the
\* call addressed.
ScaledBoundsNormalized ==
    (LastScalingCall /\ FiniteWidth(lastCall.bounds)) =>
        \A r \in lastCall.rowIndices \cap (0 .. VarRows(lastCall.var) - 1) :
            /\ ScaledValueOf(lastCall.var, lastCall.bounds.lower).d[<<r, 0>>]
                    = Ratio(-1, 2)
            /\ ScaledValueOf(lastCall.var, lastCall.bounds.upper).d[<<r, 0>>]
                    = Ratio(1, 2)

-----------------------------------------------------------------------------
(* Further properties of the variable layout. *)

SortedKeyCounts ==
    [i \in 1 .. Len(getSortedVarKeys) |->
        Numel(m_unscaledVars[getSortedVarKeys[i]])]

\* C25: expandVariables slices the flat vector into consecutive segments
\* in the order initial_time, final_time, parameters, states, controls,
\* multipliers, derivatives, each of the element count of its kind's
\* buffer and reshaped column-major; the final offset is the sum of the
\* seven element counts and equals the length of the vector flattening
\* produces.
ExpandSegments ==
    pc = "expanded" =>
        /\ expandedVars.offset = SumSeq(SortedKeyCounts)
        /\ expandedVars.offset = Len(flatVars.x)
        /\ ~expandedVars.err
        /\ \A i \in 1 .. Len(getSortedVarKeys) :
            LET key == getSortedVarKeys[i]
                value == m_unscaledVars[key]
                offset == SumSeq(SubSeq(SortedKeyCounts, 1, i - 1))
            IN  \A rc \in DOMAIN value.d :
                    expandedVars.out[key].d[rc]
                        = flatVars.x[offset + rc[2] * value.rows + rc[1] + 1]

-----------------------------------------------------------------------------
(* Further properties of the constraint mapping. *)

\* The slots of a Constraints value, as <<slot, idx>>.
SlotsOf(c) ==
    ({"initial_time", "final_time", "parameters", "defects",
      "multibody_residuals", "auxiliary_residuals", "kinematic",
      "interp_controls"} \X {0})
        \cup ({"endpoint"} \X (0 .. Len(c.endpoint) - 1))
        \cup ({"path"} \X (0 .. Len(c.path) - 1))

\* Every column trav addresses in a slot with rows exists in the
\* allocation, and every allocated column of such a slot is addressed
\* exactly once.
AddressesAllocation(trav, init) ==
    /\ \A i \in DOMAIN trav :
        SlotOf(init, trav[i]).rows > 0 =>
            trav[i][3] < SlotOf(init, trav[i]).cols
    /\ \A sl \in SlotsOf(init) :
        LET matrix == SlotOf(init, <<sl[1], sl[2], 0>>)
        IN  matrix.rows > 0 =>
                \A col \in 0 .. matrix.cols - 1 :
                    Cardinality({i \in DOMAIN trav :
                                    trav[i] = <<sl[1], sl[2], col>>}) = 1

\* C26: in flattenConstraints and expandConstraints, every column index
\* used on a slot with a non-zero row count is smaller than the column
\* count expandConstraints allocates for the slot, and every allocated
\* column of such a slot is visited exactly once.
TraversalWithinAllocation ==
    (pc = "cons" /\ expCons # NotRun) =>
        LET init == expandConstraintsInit
            nEndpoint == Len(init.endpoint)
            nPath == Len(init.path)
        IN  /\ expCons.status # "range_error"
            /\ AddressesAllocation(
                    expandConstraintsColumns(nEndpoint, nPath), init)
            /\ AddressesAllocation(
                    flattenConstraintsColumns(nEndpoint, nPath), init)

-----------------------------------------------------------------------------
(* Further properties of the variable order. *)

OrderColumns(kind) ==
    {order[i][2] : i \in {j \in DOMAIN order : order[j][1] = kind}}

\* The number of columns of each kind the order is to list.
OrderCount(kind) ==
    CASE kind \in {"initial_time", "final_time", "parameters"} ->
            m_numMeshIntervals + 1
      [] kind \in {"states", "controls", "multipliers", "derivatives"} ->
            m_numGridPoints
      [] kind \in {"slacks", "projection_states"} -> m_numMeshIntervals

\* C27: for both Legendre schemes with control interpolation disabled,
\* getVariableOrder() lists no (kind, column) pair twice, and for each
\* kind the listed columns are exactly 0..count-1: M+1 for initial_time,
\* final_time and parameters, numGridPoints for states, controls,
\* multipliers and derivatives, M for slacks and, for Legendre-Gauss,
\* projection_states.
OrderListsEveryColumnOnce ==
    (pc \in {"ordered", "flattened", "expanded"}
            /\ ~cfg.interpolateControlMeshInteriorPoints) =>
        /\ \A i, j \in DOMAIN order : order[i] = order[j] => i = j
        /\ \A kind \in Kinds :
            (kind = "projection_states" => cfg.scheme = "LegendreGauss") =>
                OrderColumns(kind) = 0 .. OrderCount(kind) - 1

OrderListsEveryColumnOnceWitness ==
    /\ pc = "ordered"
    /\ ~cfg.interpolateControlMeshInteriorPoints
    /\ cfg.scheme = "LegendreGaussRadau"
    /\ m_numMeshIntervals = 2
    /\ m_degree = 2
    /\ <<"controls", 4>> \in {order[i] : i \in DOMAIN order}

\* The number of rows of a defects column the scheme is to fill.
DefectRowCount ==
    IF cfg.scheme = "LegendreGauss"
        THEN (m_degree + 1) * cfg.numStates
        ELSE 2 + cfg.numParameters + m_degree * cfg.numStates

\* The sizes of the row blocks of one defects column, in order.
DefectBlockSizes ==
    (IF cfg.scheme = "LegendreGauss"
        THEN <<cfg.numStates>>
        ELSE <<1, 1, cfg.numParameters>>)
    \o [d \in 1 .. m_degree |-> cfg.numStates]

\* C28: for every mesh interval k, the row ranges calcDefectsImpl writes
\* into defects column k are pairwise disjoint and together cover exactly
\* rows 0..R-1, with R = (degree+1)*NS for Legendre-Gauss (NS end-state
\* rows, then NS residual rows per collocation point) and R = 2+NP+
\* degree*NS for Legendre-Gauss-Radau (two time rows, NP parameter rows,
\* then NS residual rows per collocation point); interval k writes no
\* other column, and every grid column it reads lies within the grid.
DefectRowsPartition ==
    DefectsComputed =>
        \A k \in 0 .. m_numMeshIntervals - 1 :
            LET w == m_constraints.writes[k + 1]
            IN  /\ \A i, j \in DOMAIN w :
                    i # j => w[i].rows \cap w[j].rows = {}
                /\ UNION {w[i].rows : i \in DOMAIN w} = 0 .. DefectRowCount - 1
                /\ m_constraints.defects.rows = DefectRowCount
                /\ [i \in DOMAIN w |-> Cardinality(w[i].rows)]
                        = DefectBlockSizes
                /\ \A i, j \in DOMAIN w :
                    i < j => \A r1 \in w[i].rows, r2 \in w[j].rows : r1 < r2
                /\ \A i \in DOMAIN w : w[i].col = k
                /\ m_constraints.reads[k + 1] \subseteq 0 .. m_numGridPoints - 1

DefectRowsPartitionWitness ==
    /\ DefectsComputed
    /\ cfg.scheme = "LegendreGaussRadau"
    /\ cfg.numParameters = 1
    /\ cfg.numStates = 2
    /\ m_degree = 2
    /\ m_numMeshIntervals = 2
    /\ m_constraints.reads[2] = 2 .. 4

-----------------------------------------------------------------------------
(* Properties of the life of a transcription instance: construction, then  *)
(* any number of solve() calls.                                            *)

Events == {trace[i] : i \in DOMAIN trace}

\* The calls made since the last transcribe(), i.e. by the current solve().
CurrentSolve ==
    LET last == CHOOSE i \in DOMAIN trace :
                    /\ trace[i] = "transcribe"
                    /\ \A j \in DOMAIN trace : j > i => trace[j] # "transcribe"
    IN  SubSeq(trace, last, Len(trace))

\* The calls of a solve() that reaches the solver, in order.
CompleteSolve ==
    <<"transcribe", "flattenVariables", "flattenConstraints", "nlpsol",
      "flattenVariables", "flattenVariables", "flattenVariables",
      "flattenConstraints", "flattenConstraints", "nlpFunc">>

\* C21: the transcription build has no partial-failure outcome.  After a
\* configuration error at construction nothing was called; after the
\* internal-consistency error of a flatten step the solve() that raised it
\* neither created nor called the solver, so no x, g, lbx, ubx, lbg, ubg
\* was handed over; and every solver call is preceded, within its solve(),
\* by all flatten steps, each completed successfully.
SolverOnlyAfterFlatten ==
    /\ pc = "config_error" => trace = <<>>
    /\ pc = "internal_error" =>
        \A i \in DOMAIN CurrentSolve :
            CurrentSolve[i] \notin {"nlpsol", "nlpFunc"}
    /\ "nlpsol" \in Events => flatCons.status = "ok"
    /\ "nlpFunc" \in Events =>
        rtFlat.lbg.status = "ok" /\ rtFlat.ubg.status = "ok"
    /\ \A i \in DOMAIN trace :
        /\ trace[i] = "nlpsol" =>
            /\ i > 3
            /\ SubSeq(trace, i - 3, i) = SubSeq(CompleteSolve, 1, 4)
        /\ trace[i] = "nlpFunc" =>
            /\ i >= Len(CompleteSolve)
            /\ SubSeq(trace, i - Len(CompleteSolve) + 1, i) = CompleteSolve

SolverOnlyAfterFlattenWitness ==
    /\ pc = "internal_error"
    /\ cfg.countDelta = 1
    /\ flatCons.status = "count_error"
    /\ m_numMeshIntervals = 2
    /\ Len(trace) = 4

\* C22: createVariablesAndSetBounds is invoked exactly once per instance,
\* during construction, and precedes every constraint assembly, flatten
\* call and solver call, over any number of solve() calls.
CreatedOnceBeforeUse ==
    /\ pc \in {"new", "config_error"} => trace = <<>>
    /\ trace # <<>> =>
        /\ trace[1] = "createVariablesAndSetBounds"
        /\ \A i \in DOMAIN trace :
            i > 1 => trace[i] # "createVariablesAndSetBounds"
        /\ m_unscaledVars # Idle

CreatedOnceBeforeUseWitness ==
    /\ calls = 2
    /\ pc = "scaling"
    /\ Len(trace) = 1 + 2 * Len(CompleteSolve)
    /\ trace[Len(trace)] = "nlpFunc"

\* C24: the trapezoidal scheme uses 2 points per mesh interval and
\* numStates defects per interval, so with M mesh intervals the grid is
\* the mesh (numGridPoints = M + 1), every grid column is a mesh point
\* (the mask is all ones), and the defects slot is numStates x M; for the
\* mesh [0, 1/3, 2/3, 1] with 2 states: 4 grid points, mask [1, 1, 1, 1],
\* defects 2 x 3.
TrapezoidalGrid ==
    (cfg.scheme = "Trapezoidal" /\ pc \notin {"new", "config_error"}) =>
        /\ m_numPointsPerMeshInterval = 2
        /\ m_numDefectsPerMeshInterval = cfg.numStates
        /\ m_numGridPoints = m_numMeshIntervals + 1
        /\ m_numGridPoints = Len(cfg.mesh)
        /\ m_unscaledVars["states"].cols = Len(cfg.mesh)
        /\ meshIndices.status = "ok"
        /\ meshIndices.meshIndices = Filled(1, m_numMeshIntervals + 1, 1)
        /\ m_constraints # Idle =>
            /\ m_constraints.defects.rows = cfg.numStates
            /\ m_constraints.defects.cols = m_numMeshIntervals

TrapezoidalGridWitness ==
    /\ cfg.scheme = "Trapezoidal"
    /\ cfg.mesh = <<Num(0), Ratio(1, 3), Ratio(2, 3), Num(1)>>
    /\ cfg.numStates = 2
    /\ cfg.numControls = 0
    /\ m_constraints # Idle
    /\ m_constraints.defects.rows = 2
    /\ m_constraints.defects.cols = 3
    /\ meshIndices.meshIndices.cols = 4

-----------------------------------------------------------------------------
(* evalOnTrajectory: the point function mapped over the time indices.  The *)
(* map makes one evaluation per time index; evaluation k reads column      *)
(* timeIndices[k] of the times and of every input variable and writes      *)
(* column k - 1 of the output.  With "serial" the evaluations run in index *)
(* order, with "thread" their reads and writes interleave freely.          *)

ControlValues == {Num(-1), Num(2)}

EvalConfigsOn(M) ==
    {[scheme |-> "SlidingMass", numMeshIntervals |-> M,
      mass |-> mass, parallelization |-> par, timeIndices |-> ti,
      times |-> [rows |-> 1, cols |-> M + 1,
                 d |-> [e \in {0} \X (0 .. M) |-> Ratio(e[2], M)]],
      states |-> [rows |-> 2, cols |-> M + 1,
                  d |-> [e \in (0 .. 1) \X (0 .. M) |-> Num(e[1] + 2 * e[2])]],
      controls |-> [rows |-> 1, cols |-> M + 1,
                    d |-> [e \in {0} \X (0 .. M) |-> c[e[2]]]]] :
        mass \in 1 .. 2, par \in {"serial", "thread"},
        ti \in {[k \in 1 .. M + 1 |-> k - 1], [k \in 1 .. M |-> k]},
        c \in [0 .. M -> ControlValues]}

EvalConfigs == UNION {EvalConfigsOn(M) : M \in 1 .. MaxMesh + 1}

\* MultibodySystem::eval: args = <<time, states, controls>>, each one
\* column; the output is controls / m_mass.
MultibodySystem_eval(args) == [i \in 1 .. Len(args[3]) |-> Div(args[3][i], Num(cfg.mass))]

\* The arguments of evaluation k: column timeIndices[k] of each input.
EvalArgs(k) ==
    LET col == cfg.timeIndices[k]
    IN  <<Column(cfg.times, col), Column(cfg.states, col),
          Column(cfg.controls, col)>>

\* The output of the map evaluated one index after the other.
evalOnTrajectory ==
    LET n == Len(cfg.timeIndices)
    IN  [rows |-> 1, cols |-> n,
         d |-> [e \in {0} \X (0 .. n - 1) |->
                    MultibodySystem_eval(EvalArgs(e[2] + 1))[e[1] + 1]]]

InitEval ==
    /\ cfg \in EvalConfigs
    /\ pc = "eval"
    /\ m_unscaledVars = Idle
    /\ m_lowerBounds = Idle
    /\ m_upperBounds = Idle
    /\ m_scale = Idle
    /\ m_shift = Idle
    /\ calls = 0
    /\ lastCall = [op |-> "none"]
    /\ addressed = {}
    /\ scaled = [op |-> "none"]
    /\ order = Idle
    /\ flatVars = Idle
    /\ expandedVars = Idle
    /\ m_constraints = Idle
    /\ flatCons = Idle
    /\ rtCons = Idle
    /\ expCons = Idle
    /\ rtFlat = Idle
    /\ meshIndices = Idle
    /\ controlIndices = Idle
    /\ quadCoeffs = Idle
    /\ trace = Idle
    /\ evalIn = [k \in 1 .. Len(cfg.timeIndices) |-> [stage |-> "waiting"]]
    /\ evalOut = [rows |-> 1, cols |-> Len(cfg.timeIndices),
                  d |-> [e \in {0} \X (0 .. Len(cfg.timeIndices) - 1) |-> "unset"]]

\* Evaluation k takes its input slice.
ReadSlice(k) ==
    /\ pc = "eval"
    /\ evalIn[k].stage = "waiting"
    /\ cfg.parallelization = "serial" =>
        \A j \in 1 .. k - 1 : evalIn[j].stage = "written"
    /\ evalIn' = [evalIn EXCEPT ![k] =
                    [stage |-> "read", args |-> EvalArgs(k),
                     reads |-> {cfg.timeIndices[k]}]]
    /\ UNCHANGED <<cfg, pc, layoutVars, consVars, boundsVars, meshVars, trace, evalOut>>

\* An evaluation that stores its result in the next free output column.
WriteOutputNextFree(k) ==
    LET free == CHOOSE j \in 0 .. evalOut.cols - 1 :
                    /\ evalOut.d[<<0, j>>] = "unset"
                    /\ \A i \in 0 .. j - 1 : evalOut.d[<<0, i>>] # "unset"
        out == MultibodySystem_eval(evalIn[k].args)
    IN  /\ pc = "eval"
        /\ evalIn[k].stage = "read"
        /\ evalOut' = [evalOut EXCEPT !.d[<<0, free>>] = out[1]]
        /\ evalIn' = [evalIn EXCEPT ![k] =
                        [stage |-> "written", args |-> @.args,
                         reads |-> @.reads, writes |-> {free}]]
        /\ UNCHANGED <<cfg, pc, layoutVars, consVars, boundsVars, meshVars, trace>>

\* Evaluation k applies the point function to the slice it took and
\* stores the result in its output column.
WriteOutput(k) ==
    LET out == MultibodySystem_eval(evalIn[k].args)
    IN  /\ pc = "eval"
        /\ evalIn[k].stage = "read"
        /\ evalOut' = [evalOut EXCEPT !.d[<<0, k - 1>>] = out[1]]
        /\ evalIn' = [evalIn EXCEPT ![k] =
                        [stage |-> "written", args |-> @.args,
                         reads |-> @.reads, writes |-> {k - 1}]]
        /\ UNCHANGED <<cfg, pc, layoutVars, consVars, boundsVars, meshVars, trace>>

NextEval ==
    \/ \E k \in DOMAIN evalIn : ReadSlice(k)
    \/ \E k \in DOMAIN evalIn : WriteOutput(k)

SpecEval == InitEval /\ [][NextEval]_vars

====
